---- MODULE Spec2Model ----
(***************************************************************************)
(* Live Update Engine of the actionable_logic package                      *)
(* (packages/actionable_logic/actionable_logic/live_update/engine.py):     *)
(* the policy state map, the workflow registry, apply_change with its      *)
(* broadcast outside the state lock, register_workflow / unregister,       *)
(* sync_once over the change sources and the background monitor loop,      *)
(* together with the run loop of the Policy Conflict Detector.             *)
(*                                                                         *)
(* Strings whose content the code inspects (policy versions) are sequences *)
(* of one-character strings, so that split / isdigit / int / format are    *)
(* computed as the code computes them.                                     *)
(***************************************************************************)
EXTENDS Integers, Sequences, FiniteSets, TLC

(***************************************************************************)
(* Bounds of the model                                                     *)
(***************************************************************************)
\* total number of public calls (apply_change, register, unregister, ...)
MaxCalls == 3
\* total number of push_change calls on the change sources
MaxPushes == 2
\* number of apply_policy_update calls on one guardrail engine
MaxUpdates == 3
\* total number of monitor_action calls
MaxMonitors == 2
\* number of add_policy calls on the stand-alone enforcer
MaxPolicies == 2
\* policy records in the repository
MaxRecords == 3
\* scan_once calls
MaxScans == 2
\* the largest limit passed to get_audit_log
MaxLimit == 2
\* execute calls of the runner thread
MaxExecutes == 2

(***************************************************************************)
(* Input domains                                                           *)
(***************************************************************************)
PolicyIds == {"X", "Y"}
RawTexts == {"a", "b"}
WorkflowIds == {"wf1", "wf2"}
\* the workflow ids in string order
WorkflowOrder == <<"wf1", "wf2">>
CallerThreads == {"t1", "t2"}
LoopOrder == <<"m1", "m2">>
DetectorOrder == <<"d1", "d2">>
LoopThreads == {LoopOrder[i] : i \in 1..Len(LoopOrder)}
DetectorThreads == {DetectorOrder[i] : i \in 1..Len(DetectorOrder)}
SourceIds == {"s1", "s2"}
SourceNames == {"feed"}

None == "None"
Free == "free"

Range(s) == {s[i] : i \in 1..Len(s)}

(***************************************************************************)
(* Version strings: str.split, str.isdigit, int(), f-string formatting     *)
(***************************************************************************)
AsciiDigits == {"0", "1", "2", "3", "4", "5", "6", "7", "8", "9"}

\* "sup2" stands for the one-character string U+00B2 (superscript two):
\* str.isdigit() is True for it while int() rejects it.
UnicodeDigits == AsciiDigits \cup {"sup2"}

ValueError == <<"ValueError">>

DigitValue(c) ==
    CASE c = "0" -> 0 [] c = "1" -> 1 [] c = "2" -> 2 [] c = "3" -> 3
      [] c = "4" -> 4 [] c = "5" -> 5 [] c = "6" -> 6 [] c = "7" -> 7
      [] c = "8" -> 8 [] c = "9" -> 9

DigitChar(d) ==
    CASE d = 0 -> "0" [] d = 1 -> "1" [] d = 2 -> "2" [] d = 3 -> "3"
      [] d = 4 -> "4" [] d = 5 -> "5" [] d = 6 -> "6" [] d = 7 -> "7"
      [] d = 8 -> "8" [] d = 9 -> "9"

RECURSIVE SplitRec(_, _, _)
SplitRec(s, parts, cur) ==
    IF s = <<>> THEN Append(parts, cur)
    ELSE IF Head(s) = "." THEN SplitRec(Tail(s), Append(parts, cur), <<>>)
    ELSE SplitRec(Tail(s), parts, Append(cur, Head(s)))

\* version.split(".")
split(s) == SplitRec(s, <<>>, <<>>)

\* p.isdigit()
isdigit(p) == Len(p) > 0 /\ \A i \in 1..Len(p) : p[i] \in UnicodeDigits

RECURSIVE IntRec(_, _)
IntRec(p, acc) ==
    IF p = <<>> THEN acc ELSE IntRec(Tail(p), acc * 10 + DigitValue(Head(p)))

\* int(p) for a string of decimal digits
int(p) == IntRec(p, 0)

\* int(p) raises ValueError: p passed isdigit() but holds a non-decimal digit
int_raises(p) == \E i \in 1..Len(p) : p[i] \notin AsciiDigits

RECURSIVE str(_)
\* f"{n}" for a non-negative integer
str(n) == IF n < 10 THEN <<DigitChar(n)>> ELSE str(n \div 10) \o <<DigitChar(n % 10)>>

\* f"{major}.{minor}.{patch}"
FormatVersion(major, minor, patch) ==
    str(major) \o <<".">> \o str(minor) \o <<".">> \o str(patch)

\* mutant of _increment_patch_version: the minor component is incremented
_increment_patch_version_Minor(version) ==
    LET parts == split(version) IN
    IF Len(parts) # 3 \/ ~(\A i \in 1..Len(parts) : isdigit(parts[i]))
    THEN <<"1", ".", "0", ".", "1">>
    ELSE IF \E i \in 1..3 : int_raises(parts[i]) THEN ValueError
    ELSE FormatVersion(int(parts[1]), int(parts[2]) + 1, int(parts[3]))

\* mutant of _increment_patch_version: the patch component keeps one digit
_increment_patch_version_Wrap(version) ==
    LET parts == split(version) IN
    IF Len(parts) # 3 \/ ~(\A i \in 1..Len(parts) : isdigit(parts[i]))
    THEN <<"1", ".", "0", ".", "1">>
    ELSE IF \E i \in 1..3 : int_raises(parts[i]) THEN ValueError
    ELSE FormatVersion(int(parts[1]), int(parts[2]), (int(parts[3]) + 1) % 10)

\* LiveUpdateEngine._increment_patch_version
_increment_patch_version(version) ==
    LET parts == split(version) IN
    IF Len(parts) # 3 \/ ~(\A i \in 1..Len(parts) : isdigit(parts[i]))
    THEN <<"1", ".", "0", ".", "1">>
    ELSE IF \E i \in 1..3 : int_raises(parts[i]) THEN ValueError
    ELSE FormatVersion(int(parts[1]), int(parts[2]), int(parts[3]) + 1)

\* StructuredPolicy.version default, the version of every translated policy
DefaultVersion == <<"1", ".", "0", ".", "0">>

\* change.version_hint is None
NoHint == <<"None">>

\* `if change.version_hint:` (None and "" are falsy)
Truthy(hint) == hint # NoHint /\ hint # <<>>

\* LiveUpdateEngine._fingerprint: SHA-256 of the raw text, collision-free
\* on the texts of the model
_fingerprint(raw_text) == <<"sha256", raw_text>>

(***************************************************************************)
(* State                                                                   *)
(***************************************************************************)
VARIABLES
    states,         \* _states: policy_id -> _PolicyState (a dict: its domain are the keys)
    states_keys,    \* insertion order of the keys of _states
    clock,          \* datetime.utcnow(), counted in commits
    workflows,      \* _workflows: the registered workflow ids in insertion order
    subscriptions,  \* _subscriptions: workflow_id -> set of policy ids
    workflow_lock,  \* owner of _workflow_lock
    store,          \* AtomicWorkflowStore._policies of each consumer
    pc,             \* position of every thread
    change,         \* apply_change: the PolicyChange being applied
    policy,         \* apply_change: the translated policy
    bc,             \* _broadcast_policy: snapshot `workflows`
    bc_subs,        \* _broadcast_policy: snapshot `subscriptions`
    bc_i,           \* _broadcast_policy: loop position
    applied,        \* _broadcast_policy: `applied`
    now,            \* apply_change: `now`
    hooked,         \* consumers whose apply_policy_update the current call invoked
    reg,            \* register_workflow: locals of the call
    result,         \* what the last call of the thread returned or raised
    hist,           \* outcomes of apply_change in state-lock order
    calls,          \* number of public calls made so far
    sources,        \* _sources: the registered change sources, in order
    queue,          \* InMemoryPolicyChangeSource._queue of each source
    sync,           \* sync_once: locals of the call
    dropped,        \* changes fetched by a sync_once that ended without applying them
    stop_event,     \* LiveUpdateEngine._stop_event
    monitor_thread, \* LiveUpdateEngine._monitor_thread
    loop_exc,       \* exception in flight in the frame of a loop thread
    det_stop_event, \* PolicyConflictDetector._stop_event
    det_thread,     \* PolicyConflictDetector._thread
    det_pc,         \* position of every detector loop thread
    det_exc,        \* exception in flight in the frame of a detector loop thread
    pushes,         \* number of push_change calls made so far
    pushed,         \* the changes push_change has appended to each source, in order
    returned,       \* the changes fetch_changes has returned from each source, in order
    delivered,      \* the policies passed to apply_policy_update of every consumer
                    \* whose updates are recorded, in order
    execution,      \* AtomicWorkflowStore.execute of the runner thread: position,
                    \* snapshot and the results returned so far
    guardrail_lock, \* owner of AdaptiveGuardrailsEngine._lock of each engine
    applying,       \* apply_policy_update: locals of the call of every updater thread
    updated,        \* the policies of the apply_policy_update calls of the updater
                    \* threads on each engine, in the order they took the lock
    state_lock,     \* LiveUpdateEngine._state_lock: Free, or the thread that holds it
    audit_lock,     \* PolicyConflictDetector._lock: Free, or the thread that holds it
    translator,     \* LiveUpdateEngine._translator: the version its policies carry
    translated,     \* whether the current apply_change invoked the translator
    policies,       \* AdaptiveGuardrailsEngine._enforcer.policies of each engine
    routing_table,  \* AdaptiveGuardrailsEngine._routing_table of each engine
    response,       \* the last call on each engine: the policy applied, or what
                    \* monitor_action returned or raised
    updates,        \* number of apply_policy_update calls on each engine
    monitors,       \* number of monitor_action calls made so far (datetime.utcnow)
    enforcer,       \* PolicyEnforcer.policies of a stand-alone enforcer
    evaluated,      \* what the last PolicyEnforcer.evaluate returned or raised
    repository,     \* PolicyRepository: the stored policy records, in insertion order
    audit_log,      \* PolicyConflictDetector._audit_log
    audit_file,     \* the lines of the file at PolicyConflictDetector._audit_log_path
    scan,           \* scan_once: locals of the call of every scanning thread
    detections,     \* number of conflicts built so far (datetime.utcnow)
    scans,          \* number of scan_once calls made so far
    fetched,        \* what the last get_audit_log returned
    compared        \* what the last pairwise analysis of two policies found

engine_vars == <<states, states_keys, clock>>
registry_vars == <<workflows, subscriptions, workflow_lock>>
apply_vars == <<change, policy, now, bc, bc_subs, bc_i, applied, hooked, translated>>
source_vars == <<sources, queue, pushes, pushed, returned>>
sync_vars == <<sync, dropped>>
loop_vars == <<stop_event, monitor_thread, loop_exc>>
detector_vars == <<det_stop_event, det_thread, det_pc, det_exc>>
guardrail_vars == <<policies, routing_table, response, updates, monitors>>
enforcer_vars == <<enforcer, evaluated>>
conflict_vars == <<repository, audit_log, audit_file, scan, detections, scans, fetched,
                  compared>>
enforcement_vars == <<guardrail_vars, enforcer_vars, conflict_vars>>
guard_vars == <<guardrail_lock, applying, updated, state_lock, audit_lock>>
consumer_vars == <<execution, guard_vars>>
workflow_vars == <<delivered, consumer_vars>>
live_update_vars == <<engine_vars, registry_vars, store, pc, apply_vars, reg, result, hist,
                      calls, source_vars, sync_vars, loop_vars, detector_vars, translator,
                      workflow_vars>>

vars == <<states, states_keys, clock, workflows, subscriptions, workflow_lock,
          store, pc, change, policy, now, bc, bc_subs, bc_i, applied, hooked,
          reg, result, hist, calls, sources, queue, sync, dropped, stop_event,
          monitor_thread, loop_exc, det_stop_event, det_thread, det_pc, det_exc,
          pushes, pushed, returned, delivered, execution, guardrail_lock, applying,
          updated, state_lock, audit_lock, translator, translated, policies, routing_table, response, updates,
          monitors, enforcer, evaluated, repository, audit_log,
          audit_file, scan, detections, scans, fetched, compared>>

Threads == CallerThreads \cup LoopThreads

EmptyDict == [k \in {} |-> None]

\* d[k] = v on a dict
DictSet(d, k, v) == [x \in DOMAIN d \cup {k} |-> IF x = k THEN v ELSE d[x]]

\* d.pop(k, None)
DictPop(d, k) == [x \in DOMAIN d \ {k} |-> d[x]]

\* the list s without the value x
SeqRemove(s, x) == SelectSeq(s, LAMBDA y : y # x)

NoChange == [policy_id |-> None, raw_text |-> None, source |-> None, version_hint |-> NoHint]
NoPolicy == [policy_id |-> None, raw_source |-> None, version |-> <<>>]
NoResult == [kind |-> "none"]
NoReg == [workflow_id |-> None, mode |-> None, size |-> 0, i |-> 0, rest |-> {}]
\* the threads that call apply_policy_update concurrently
Updaters == {"u1", "u2"}
\* the updater is not inside apply_policy_update
NoUpdate == [pc |-> "idle"]
\* the runner has not called execute yet
NoExecution == [pc |-> "idle", snapshot |-> EmptyDict, results |-> <<>>]
NoSync == [active |-> FALSE, i |-> 0, batch |-> <<>>, drained |-> <<>>, results |-> <<>>]

\* the guardrail engines of the model
Engines == {"g1", "g2"}

\* no call on the engine yet
NoResponse == [kind |-> "none"]

\* the last call on the engine was apply_policy_update(pol)
Updated(pol) == [kind |-> "updated", policy |-> pol]

\* no evaluate call yet
NoEvaluation == [kind |-> "none"]
\* the threads that call scan_once: the run loop and a direct caller
Scanners == {"loop", "caller"}
NoScan == [pc |-> "idle"]
NoFetch == [kind |-> "none"]
NoComparison == [kind |-> "none"]
\* two detectors, to compare what they find
Detectors == {"d1", "d2"}

\* the versions the injected translators of the model put on what they return
Translators == {DefaultVersion, <<"2", ".", "0", ".", "0">>}

\* LiveUpdateEngine.__init__, InMemoryPolicyChangeSource.__init__,
\* PolicyConflictDetector.__init__: everything but the injected translator;
\* the updates of the consumers in `watched` are recorded
InitRecording(watched) ==
    /\ states = EmptyDict
    /\ states_keys = <<>>
    /\ clock = 0
    /\ workflows = <<>>
    /\ subscriptions = EmptyDict
    /\ workflow_lock = Free
    /\ store = [w \in WorkflowIds |-> EmptyDict]
    /\ pc = [t \in Threads |-> IF t \in CallerThreads THEN "idle" ELSE "unborn"]
    /\ change = [t \in Threads |-> NoChange]
    /\ policy = [t \in Threads |-> NoPolicy]
    /\ now = [t \in Threads |-> 0]
    /\ bc = [t \in Threads |-> <<>>]
    /\ bc_subs = [t \in Threads |-> EmptyDict]
    /\ bc_i = [t \in Threads |-> 0]
    /\ applied = [t \in Threads |-> <<>>]
    /\ hooked = [t \in Threads |-> {}]
    /\ translated = [t \in Threads |-> FALSE]
    /\ reg = [t \in Threads |-> NoReg]
    /\ result = [t \in Threads |-> NoResult]
    /\ hist = <<>>
    /\ calls = 0
    /\ sources = <<>>
    /\ queue = [s \in SourceIds |-> <<>>]
    /\ sync = [t \in Threads |-> NoSync]
    /\ dropped = <<>>
    /\ stop_event = FALSE
    /\ monitor_thread = None
    /\ loop_exc = [t \in LoopThreads |-> FALSE]
    /\ det_stop_event = FALSE
    /\ det_thread = None
    /\ det_pc = [d \in DetectorThreads |-> "unborn"]
    /\ det_exc = [d \in DetectorThreads |-> FALSE]
    /\ pushes = 0
    /\ pushed = [s \in SourceIds |-> <<>>]
    /\ returned = [s \in SourceIds |-> <<>>]
    /\ delivered = [w \in watched |-> <<>>]
    /\ execution = NoExecution
    /\ guardrail_lock = [g \in Engines |-> Free]
    /\ applying = [u \in Updaters |-> NoUpdate]
    /\ updated = [g \in Engines |-> <<>>]
    /\ state_lock = Free
    /\ audit_lock = Free

\* no consumer has its updates recorded
InitEngine == InitRecording({})

\* AdaptiveGuardrailsEngine.__init__ of every engine
InitGuardrails ==
    /\ policies = [g \in Engines |-> <<>>]
    /\ routing_table = [g \in Engines |-> EmptyDict]
    /\ response = [g \in Engines |-> NoResponse]
    /\ updates = [g \in Engines |-> 0]
    /\ monitors = 0

\* PolicyEnforcer.__init__ without policies
InitEnforcer ==
    /\ enforcer = <<>>
    /\ evaluated = NoEvaluation

\* PolicyConflictDetector.__init__ over an empty repository, with an audit file
InitAuditLog ==
    /\ audit_log = <<>>
    /\ audit_file = <<>>
    /\ scan = [t \in Scanners |-> NoScan]
    /\ detections = 0
    /\ scans = 0
    /\ fetched = NoFetch

InitScans ==
    /\ repository = <<>>
    /\ InitAuditLog

InitDetector ==
    /\ InitScans
    /\ compared = [d \in Detectors |-> NoComparison]

\* a detector over a repository that already lists policies
InitRepository(lists) ==
    /\ InitEngine
    /\ translator = DefaultVersion
    /\ InitGuardrails
    /\ InitEnforcer
    /\ repository \in lists
    /\ InitAuditLog
    /\ compared = [d \in Detectors |-> NoComparison]

\* the detectors with the policy lists they are about to analyse
InitGiven(lists1, lists2) ==
    /\ InitEngine
    /\ translator = DefaultVersion
    /\ InitGuardrails
    /\ InitEnforcer
    /\ InitScans
    /\ \E pols1 \in lists1, pols2 \in lists2 :
         compared = [d \in Detectors |->
                       [kind |-> "given", listed |-> IF d = "d1" THEN pols1 ELSE pols2]]

\* the engine built with the default PolicySchemaTranslator()
Init ==
    /\ InitEngine
    /\ translator = DefaultVersion
    /\ InitGuardrails
    /\ InitEnforcer
    /\ InitDetector

\* the engine built with an injected translator (line 63)
InitInjected ==
    /\ InitEngine
    /\ translator \in Translators
    /\ InitGuardrails
    /\ InitEnforcer
    /\ InitDetector

(***************************************************************************)
(* apply_change                                                            *)
(***************************************************************************)
\* where a thread continues when its apply_change returns
AfterApplyReturn(t) ==
    IF ~sync[t].active THEN "idle"
    ELSE IF sync[t].batch = <<>> THEN "sync_source" ELSE "sync_change"

\* where a thread continues when an exception leaves its outermost engine call:
\* a loop thread is in the `finally` of its loop, a caller has the exception
AfterRaise(t) == IF t \in LoopThreads THEN "loop_wait" ELSE "idle"

\* An exception of kind `kind` leaves apply_change in thread t. Inside sync_once
\* nothing catches it: the rest of the fetched batch goes with the frame.
Raise(t, kind) ==
    /\ pc' = [pc EXCEPT ![t] = AfterRaise(t)]
    /\ result' = [result EXCEPT ![t] = [kind |-> kind]]
    /\ sync' = [sync EXCEPT ![t] = NoSync]
    /\ dropped' = IF sync[t].active THEN dropped \o sync[t].batch ELSE dropped
    /\ loop_exc' = IF t \in LoopThreads THEN [loop_exc EXCEPT ![t] = TRUE] ELSE loop_exc

\* Thread t enters apply_change(ch): the fingerprint is computed, the thread is
\* about to take the state lock.
BeginApply(t, ch) ==
    /\ pc' = [pc EXCEPT ![t] = "commit"]
    /\ change' = [change EXCEPT ![t] = ch]
    /\ policy' = [policy EXCEPT ![t] = NoPolicy]
    /\ now' = [now EXCEPT ![t] = 0]
    /\ bc' = [bc EXCEPT ![t] = <<>>]
    /\ bc_subs' = [bc_subs EXCEPT ![t] = EmptyDict]
    /\ bc_i' = [bc_i EXCEPT ![t] = 0]
    /\ applied' = [applied EXCEPT ![t] = <<>>]
    /\ hooked' = [hooked EXCEPT ![t] = {}]
    /\ translated' = [translated EXCEPT ![t] = FALSE]
    /\ result' = [result EXCEPT ![t] = NoResult]

\* A caller thread calls apply_change(ch)
CallApply(t, ch) ==
    /\ t \in CallerThreads
    /\ pc[t] = "idle"
    /\ calls < MaxCalls
    /\ calls' = calls + 1
    /\ BeginApply(t, ch)
    /\ UNCHANGED <<engine_vars, registry_vars, store, reg, hist, source_vars,
                   sync_vars, loop_vars, detector_vars, translator, enforcement_vars, workflow_vars>>

\* mutant of SameFingerprint: the stored fingerprint is never consulted
SameFingerprint_NeverEqual(ch) == FALSE

\* `current and current.fingerprint == fingerprint`
SameFingerprint(ch) ==
    /\ ch.policy_id \in DOMAIN states
    /\ states[ch.policy_id].fingerprint = _fingerprint(ch.raw_text)

\* mutant of NewVersion: the version of the stored entry is not read
NewVersion_FromTranslator(ch) ==
    IF Truthy(ch.version_hint) THEN ch.version_hint ELSE translator

\* the version of the policy after lines 129-135: the hint, else the previous
\* version incremented, else the version translate() returned it with;
\* ValueError when _increment_patch_version raises
NewVersion(ch) ==
    IF Truthy(ch.version_hint) THEN ch.version_hint
    ELSE IF ch.policy_id \in DOMAIN states
         THEN _increment_patch_version(states[ch.policy_id].policy.version)
         ELSE translator

\* mutant of NewState: the text of an existing entry is kept
NewState_KeepsText(ch, pol) ==
    [fingerprint |-> _fingerprint(ch.raw_text),
     policy |-> pol,
     source |-> ch.source,
     updated_at |-> clock + 1,
     raw_text |-> IF ch.policy_id \in DOMAIN states THEN states[ch.policy_id].raw_text
                  ELSE ch.raw_text]

\* the _PolicyState apply_change records (lines 139-145)
NewState(ch, pol) ==
    [fingerprint |-> _fingerprint(ch.raw_text),
     policy |-> pol,
     source |-> ch.source,
     updated_at |-> clock + 1,
     raw_text |-> ch.raw_text]

\* the policy after lines 129-135
NewPolicy(ch) ==
    [policy_id |-> ch.policy_id, raw_source |-> ch.raw_text, version |-> NewVersion(ch)]

HistEntry(t, ch, changed, version) ==
    [thread |-> t, policy_id |-> ch.policy_id, raw_text |-> ch.raw_text,
     version_hint |-> ch.version_hint, changed |-> changed, version |-> version]

\* mutant of CommitNoop: the no-op refreshes updated_at of the stored entry
CommitNoop_Touches(t) ==
    /\ pc[t] = "commit"
    /\ SameFingerprint(change[t])
    /\ LET ch == change[t]
           res == [kind |-> "result", policy_id |-> ch.policy_id, changed |-> FALSE,
                   fingerprint |-> _fingerprint(ch.raw_text), source |-> ch.source,
                   updated_at |-> clock + 1,
                   affected_workflows |-> <<>>]
       IN /\ result' = [result EXCEPT ![t] = res]
          /\ states' = [states EXCEPT ![ch.policy_id].updated_at = clock + 1]
          /\ clock' = clock + 1
          /\ hist' = Append(hist, HistEntry(t, ch, FALSE, states[ch.policy_id].policy.version))
          /\ sync' = IF sync[t].active
                     THEN [sync EXCEPT ![t].results = Append(@, res)]
                     ELSE sync
    /\ pc' = [pc EXCEPT ![t] = AfterApplyReturn(t)]
    /\ UNCHANGED <<states_keys, registry_vars, store, apply_vars, reg, calls,
                   source_vars, dropped, loop_vars, detector_vars, translator,
                   enforcement_vars, workflow_vars>>

\* Under the state lock: same fingerprint, return changed=False (lines 116-127)
CommitNoop(t) ==
    /\ pc[t] = "commit"
    /\ SameFingerprint(change[t])
    /\ LET ch == change[t]
           res == [kind |-> "result", policy_id |-> ch.policy_id, changed |-> FALSE,
                   fingerprint |-> _fingerprint(ch.raw_text), source |-> ch.source,
                   updated_at |-> states[ch.policy_id].updated_at,
                   affected_workflows |-> <<>>]
       IN /\ result' = [result EXCEPT ![t] = res]
          /\ hist' = Append(hist, HistEntry(t, ch, FALSE, states[ch.policy_id].policy.version))
          /\ sync' = IF sync[t].active
                     THEN [sync EXCEPT ![t].results = Append(@, res)]
                     ELSE sync
    /\ pc' = [pc EXCEPT ![t] = AfterApplyReturn(t)]
    /\ UNCHANGED <<engine_vars, registry_vars, store, apply_vars, reg, calls,
                   source_vars, dropped, loop_vars, detector_vars, translator, enforcement_vars, workflow_vars>>

\* mutant of TranslateFail: the entry is recorded before the translator runs
TranslateFail_RecordsFirst(t) ==
    /\ pc[t] = "commit"
    /\ ~SameFingerprint(change[t])
    /\ Raise(t, "TranslationError")
    /\ states' = DictSet(states, change[t].policy_id, NewState(change[t], NoPolicy))
    /\ translated' = [translated EXCEPT ![t] = TRUE]
    /\ UNCHANGED <<states_keys, clock, registry_vars, store, change, policy, now, bc,
                   bc_subs, bc_i, applied, hooked, reg, hist, calls, source_vars,
                   stop_event, monitor_thread, detector_vars, translator,
                   enforcement_vars, workflow_vars>>

\* Under the state lock: the translator raises (line 129, or line 130 on the
\* None a model-backed translator returns)
TranslateFail(t) ==
    /\ pc[t] = "commit"
    /\ ~SameFingerprint(change[t])
    /\ Raise(t, "TranslationError")
    /\ translated' = [translated EXCEPT ![t] = TRUE]
    /\ UNCHANGED <<engine_vars, registry_vars, store, change, policy, now, bc, bc_subs,
                   bc_i, applied, hooked, reg, hist, calls, source_vars, stop_event,
                   monitor_thread, detector_vars, translator, enforcement_vars, workflow_vars>>

\* Under the state lock: _increment_patch_version raises ValueError (line 135)
IncrementFail(t) ==
    /\ pc[t] = "commit"
    /\ ~SameFingerprint(change[t])
    /\ NewVersion(change[t]) = ValueError
    /\ Raise(t, "ValueError")
    /\ translated' = [translated EXCEPT ![t] = TRUE]
    /\ UNCHANGED <<engine_vars, registry_vars, store, change, policy, now, bc, bc_subs,
                   bc_i, applied, hooked, reg, hist, calls, source_vars, stop_event,
                   monitor_thread, detector_vars, translator, enforcement_vars, workflow_vars>>

\* Under the state lock: translate, set the version, record the new entry
\* (lines 129-145)
CommitChange(t) ==
    /\ pc[t] = "commit"
    /\ ~SameFingerprint(change[t])
    /\ NewVersion(change[t]) # ValueError
    /\ LET ch == change[t]
           pol == NewPolicy(ch)
       IN /\ policy' = [policy EXCEPT ![t] = pol]
          /\ states' = DictSet(states, ch.policy_id, NewState(ch, pol))
          /\ states_keys' = IF ch.policy_id \in DOMAIN states
                            THEN states_keys
                            ELSE Append(states_keys, ch.policy_id)
          /\ clock' = clock + 1
          /\ now' = [now EXCEPT ![t] = clock + 1]
          /\ hist' = Append(hist, HistEntry(t, ch, TRUE, pol.version))
    /\ translated' = [translated EXCEPT ![t] = TRUE]
    /\ pc' = [pc EXCEPT ![t] = "snapshot"]
    /\ UNCHANGED <<registry_vars, store, change, bc, bc_subs, bc_i, applied, hooked,
                   reg, result, calls, source_vars, sync_vars, loop_vars,
                   detector_vars, translator, enforcement_vars, workflow_vars>>

(***************************************************************************)
(* _broadcast_policy                                                       *)
(***************************************************************************)
\* Under the workflow lock: copy the registry (lines 202-204)
Snapshot(t) ==
    /\ pc[t] = "snapshot"
    /\ workflow_lock = Free
    /\ bc' = [bc EXCEPT ![t] = workflows]
    /\ bc_subs' = [bc_subs EXCEPT ![t] = [w \in Range(workflows) |-> subscriptions[w]]]
    /\ bc_i' = [bc_i EXCEPT ![t] = 1]
    /\ pc' = [pc EXCEPT ![t] = "deliver"]
    /\ UNCHANGED <<engine_vars, registry_vars, store, change, policy, now, applied,
                   hooked, translated, reg, result, hist, calls, source_vars, sync_vars, loop_vars,
                   detector_vars, translator, enforcement_vars, workflow_vars>>

\* mutant of SkipWorkflow: the subscription set is ignored
SkipWorkflow_Never(subscribed, policy_id) == FALSE

\* `subscribed and policy_id not in subscribed` (line 208)
SkipWorkflow(subscribed, policy_id) == subscribed # {} /\ policy_id \notin subscribed

\* the recorded updates after consumer w was passed pol
Recorded(w, pol) ==
    IF w \in DOMAIN delivered THEN [delivered EXCEPT ![w] = Append(@, pol)] ELSE delivered

\* mutant of apply_policy_update: the map is rebuilt from the new policy alone
apply_policy_update_Rebuilds(st, w, pol) == [st EXCEPT ![w] = DictSet(EmptyDict, pol.policy_id, pol)]

\* AtomicWorkflowStore.apply_policy_update
apply_policy_update(st, w, pol) == [st EXCEPT ![w] = DictSet(@, pol.policy_id, pol)]

\* One iteration of the loop of lines 206-211
Deliver(t) ==
    /\ pc[t] = "deliver"
    /\ bc_i[t] <= Len(bc[t])
    /\ LET w == bc[t][bc_i[t]] IN
         IF SkipWorkflow(bc_subs[t][w], change[t].policy_id)
         THEN UNCHANGED <<store, delivered, applied, hooked>>
         ELSE /\ store' = apply_policy_update(store, w, policy[t])
              /\ delivered' = Recorded(w, policy[t])
              /\ applied' = [applied EXCEPT ![t] = Append(@, w)]
              /\ hooked' = [hooked EXCEPT ![t] = @ \cup {w}]
    /\ bc_i' = [bc_i EXCEPT ![t] = @ + 1]
    /\ UNCHANGED <<engine_vars, registry_vars, pc, change, policy, now, bc, bc_subs,
                   translated, reg,
                   result, hist, calls, source_vars, sync_vars, loop_vars,
                   detector_vars, translator, enforcement_vars, consumer_vars>>

\* sorted(affected): the workflow ids in ascending order
Sorted(ws) ==
    SortSeq(ws, LAMBDA a, b : \E i, j \in 1..Len(WorkflowOrder) :
                  WorkflowOrder[i] = a /\ WorkflowOrder[j] = b /\ i < j)

\* The broadcast is over: return changed=True (lines 147-156)
ReturnChanged(t) ==
    /\ pc[t] = "deliver"
    /\ bc_i[t] > Len(bc[t])
    /\ LET ch == change[t]
           res == [kind |-> "result", policy_id |-> ch.policy_id, changed |-> TRUE,
                   fingerprint |-> _fingerprint(ch.raw_text), source |-> ch.source,
                   updated_at |-> now[t],
                   affected_workflows |-> Sorted(applied[t])]
       IN /\ result' = [result EXCEPT ![t] = res]
          /\ sync' = IF sync[t].active
                     THEN [sync EXCEPT ![t].results = Append(@, res)]
                     ELSE sync
    /\ pc' = [pc EXCEPT ![t] = AfterApplyReturn(t)]
    /\ UNCHANGED <<engine_vars, registry_vars, store, apply_vars, reg, hist, calls,
                   source_vars, dropped, loop_vars, detector_vars, translator, enforcement_vars, workflow_vars>>

(***************************************************************************)
(* register_workflow / unregister_workflow                                 *)
(***************************************************************************)
\* register_workflow(w, store of w, policy_ids): take the workflow lock, record
\* the consumer and its subscription, create the iterator of the delivery loop
\* (lines 75-79 / 82). The iterator over _states.values() remembers the size of
\* the dict.
CallRegister(t, w, policy_ids) ==
    /\ t \in CallerThreads
    /\ pc[t] = "idle"
    /\ calls < MaxCalls
    /\ workflow_lock = Free
    /\ calls' = calls + 1
    /\ workflow_lock' = t
    /\ workflows' = IF w \in Range(workflows) THEN workflows ELSE Append(workflows, w)
    /\ subscriptions' = DictSet(subscriptions, w, policy_ids)
    /\ reg' = [reg EXCEPT ![t] =
                 [workflow_id |-> w,
                  mode |-> IF policy_ids = {} THEN "all" ELSE "subset",
                  size |-> Len(states_keys), i |-> 1, rest |-> policy_ids]]
    /\ result' = [result EXCEPT ![t] = NoResult]
    /\ pc' = [pc EXCEPT ![t] = "reg_iter"]
    /\ UNCHANGED <<engine_vars, store, apply_vars, hist, source_vars, sync_vars,
                   loop_vars, detector_vars, translator, enforcement_vars, workflow_vars>>

\* Full subscriber: the next value of _states.values() is delivered (lines 79-80).
\* _states is read without the state lock.
RegisterDeliverAll(t) ==
    /\ pc[t] = "reg_iter"
    /\ reg[t].mode = "all"
    /\ Len(states_keys) = reg[t].size
    /\ reg[t].i <= reg[t].size
    /\ store' = apply_policy_update(store, reg[t].workflow_id,
                                    states[states_keys[reg[t].i]].policy)
    /\ delivered' = Recorded(reg[t].workflow_id, states[states_keys[reg[t].i]].policy)
    /\ reg' = [reg EXCEPT ![t].i = @ + 1]
    /\ UNCHANGED <<engine_vars, registry_vars, pc, apply_vars, result, hist, calls,
                   source_vars, sync_vars, loop_vars, detector_vars, translator, enforcement_vars, consumer_vars>>

\* Full subscriber: a key was added to _states since the iterator was created;
\* its next step raises RuntimeError (dictionary changed size during iteration),
\* which leaves register_workflow and releases the workflow lock.
RegisterRuntimeError(t) ==
    /\ pc[t] = "reg_iter"
    /\ reg[t].mode = "all"
    /\ Len(states_keys) # reg[t].size
    /\ workflow_lock' = Free
    /\ result' = [result EXCEPT ![t] = [kind |-> "RuntimeError"]]
    /\ pc' = [pc EXCEPT ![t] = "idle"]
    /\ UNCHANGED <<engine_vars, workflows, subscriptions, store, apply_vars, reg,
                   hist, calls, source_vars, sync_vars, loop_vars, detector_vars, translator, enforcement_vars, workflow_vars>>

\* Subscriber of a subset: the next policy id of the set, delivered when it is
\* a key of _states (lines 82-84); a set is iterated in no particular order.
RegisterDeliverSubset(t) ==
    /\ pc[t] = "reg_iter"
    /\ reg[t].mode = "subset"
    /\ \E policy_id \in reg[t].rest :
         /\ store' = IF policy_id \in DOMAIN states
                     THEN apply_policy_update(store, reg[t].workflow_id,
                                              states[policy_id].policy)
                     ELSE store
         /\ delivered' = IF policy_id \in DOMAIN states
                         THEN Recorded(reg[t].workflow_id, states[policy_id].policy)
                         ELSE delivered
         /\ reg' = [reg EXCEPT ![t].rest = @ \ {policy_id}]
    /\ UNCHANGED <<engine_vars, registry_vars, pc, apply_vars, result, hist, calls,
                   source_vars, sync_vars, loop_vars, detector_vars, translator, enforcement_vars, consumer_vars>>

\* The delivery loop is over: release the workflow lock and return
RegisterReturn(t) ==
    /\ pc[t] = "reg_iter"
    /\ \/ reg[t].mode = "all" /\ Len(states_keys) = reg[t].size /\ reg[t].i > reg[t].size
       \/ reg[t].mode = "subset" /\ reg[t].rest = {}
    /\ workflow_lock' = Free
    /\ result' = [result EXCEPT ![t] = [kind |-> "registered"]]
    /\ pc' = [pc EXCEPT ![t] = "idle"]
    /\ UNCHANGED <<engine_vars, workflows, subscriptions, store, apply_vars, reg,
                   hist, calls, source_vars, sync_vars, loop_vars, detector_vars, translator, enforcement_vars, workflow_vars>>

\* unregister_workflow(w), under the workflow lock (lines 86-89)
Unregister(t, w) ==
    /\ t \in CallerThreads
    /\ pc[t] = "idle"
    /\ calls < MaxCalls
    /\ workflow_lock = Free
    /\ calls' = calls + 1
    /\ workflows' = SeqRemove(workflows, w)
    /\ subscriptions' = DictPop(subscriptions, w)
    /\ result' = [result EXCEPT ![t] = [kind |-> "unregistered"]]
    /\ UNCHANGED <<engine_vars, workflow_lock, store, pc, apply_vars, reg, hist,
                   source_vars, sync_vars, loop_vars, detector_vars, translator, enforcement_vars, workflow_vars>>

(***************************************************************************)
(* Change sources and sync_once                                            *)
(***************************************************************************)
\* add_source(s) (lines 91-92); every source is added once
AddSource(t, s) ==
    /\ t \in CallerThreads
    /\ pc[t] = "idle"
    /\ calls < MaxCalls
    /\ s \notin Range(sources)
    /\ calls' = calls + 1
    /\ sources' = Append(sources, s)
    /\ UNCHANGED <<engine_vars, registry_vars, store, pc, apply_vars, reg, result,
                   hist, queue, pushes, pushed, returned, sync_vars, loop_vars, detector_vars, translator, enforcement_vars, workflow_vars>>

\* InMemoryPolicyChangeSource.push_change, by any producer (lines 247-263)
PushChange(s, ch) ==
    /\ pushes < MaxPushes
    /\ pushes' = pushes + 1
    /\ queue' = [queue EXCEPT ![s] = Append(@, ch)]
    /\ pushed' = [pushed EXCEPT ![s] = Append(@, ch)]
    /\ UNCHANGED <<engine_vars, registry_vars, store, pc, apply_vars, reg, result,
                   hist, calls, sources, returned, sync_vars, loop_vars, detector_vars, translator, enforcement_vars, workflow_vars>>

\* Thread t enters sync_once (line 108)
BeginSync(t) ==
    /\ pc' = [pc EXCEPT ![t] = "sync_source"]
    /\ sync' = [sync EXCEPT ![t] = [active |-> TRUE, i |-> 1, batch |-> <<>>,
                                    drained |-> <<>>, results |-> <<>>]]
    /\ result' = [result EXCEPT ![t] = NoResult]

\* A caller thread calls sync_once()
CallSync(t) ==
    /\ t \in CallerThreads
    /\ pc[t] = "idle"
    /\ calls < MaxCalls
    /\ calls' = calls + 1
    /\ BeginSync(t)
    /\ UNCHANGED <<engine_vars, registry_vars, store, apply_vars, reg, hist,
                   source_vars, dropped, loop_vars, detector_vars, translator, enforcement_vars, workflow_vars>>

\* the changes a fetch_changes call on source s returned, with their source
FetchedFrom(s, changes) == [k \in 1..Len(changes) |-> [source |-> s, change |-> changes[k]]]

\* Next source of `for source in self._sources`: fetch_changes() copies the
\* queue and clears it under the lock of the source (lines 109-110, 265-269)
SyncFetch(t) ==
    /\ pc[t] = "sync_source"
    /\ sync[t].i <= Len(sources)
    /\ LET s == sources[sync[t].i] IN
         /\ sync' = [sync EXCEPT ![t].batch = queue[s], ![t].i = @ + 1,
                                 ![t].drained = @ \o FetchedFrom(s, queue[s])]
         /\ queue' = [queue EXCEPT ![s] = <<>>]
         /\ returned' = [returned EXCEPT ![s] = @ \o queue[s]]
         /\ pc' = [pc EXCEPT ![t] = IF queue[s] = <<>> THEN "sync_source"
                                     ELSE "sync_change"]
    /\ UNCHANGED <<engine_vars, registry_vars, store, apply_vars, reg, result, hist,
                   calls, sources, pushes, pushed, dropped, loop_vars, detector_vars, translator, enforcement_vars, workflow_vars>>

\* Next change of the fetched list: apply_change(change) (line 111)
SyncApply(t) ==
    /\ pc[t] = "sync_change"
    /\ sync[t].batch # <<>>
    /\ BeginApply(t, Head(sync[t].batch))
    /\ sync' = [sync EXCEPT ![t].batch = Tail(@)]
    /\ UNCHANGED <<engine_vars, registry_vars, store, reg, hist, calls, source_vars,
                   dropped, loop_vars, detector_vars, translator, enforcement_vars, workflow_vars>>

\* The sources are exhausted: return results (line 112)
SyncReturn(t) ==
    /\ pc[t] = "sync_source"
    /\ sync[t].i > Len(sources)
    /\ result' = [result EXCEPT ![t] = [kind |-> "results", results |-> sync[t].results]]
    /\ sync' = [sync EXCEPT ![t] = NoSync]
    /\ pc' = [pc EXCEPT ![t] = IF t \in LoopThreads THEN "loop_wait" ELSE "idle"]
    /\ UNCHANGED <<engine_vars, registry_vars, store, apply_vars, reg, hist, calls,
                   source_vars, dropped, loop_vars, detector_vars, translator, enforcement_vars, workflow_vars>>

SyncSteps(t) ==
    \/ SyncFetch(t)
    \/ SyncApply(t)
    \/ SyncReturn(t)

(***************************************************************************)
(* start / stop and the monitor loop of the Live Update Engine             *)
(***************************************************************************)
\* Thread.is_alive()
is_alive(m) == pc[m] \notin {"unborn", "exited", "crashed"}

\* the Thread object start() creates: the first thread of `order` not yet used
FreshThread(order, position) ==
    order[CHOOSE i \in 1..Len(order) :
            /\ position[order[i]] = "unborn"
            /\ \A j \in 1..(i - 1) : position[order[j]] # "unborn"]

\* start() while the monitor thread is alive returns at once (lines 95-96)
StartNoop(t) ==
    /\ t \in CallerThreads
    /\ pc[t] = "idle"
    /\ calls < MaxCalls
    /\ monitor_thread # None /\ is_alive(monitor_thread)
    /\ calls' = calls + 1
    /\ UNCHANGED <<engine_vars, registry_vars, store, pc, apply_vars, reg, result,
                   hist, source_vars, sync_vars, loop_vars, detector_vars, translator, enforcement_vars, workflow_vars>>

\* start(): clear the stop event, create and start the loop thread (lines 97-99)
StartSpawn(t) ==
    /\ t \in CallerThreads
    /\ pc[t] = "idle"
    /\ calls < MaxCalls
    /\ ~(monitor_thread # None /\ is_alive(monitor_thread))
    /\ \E m \in LoopThreads : pc[m] = "unborn"
    /\ calls' = calls + 1
    /\ stop_event' = FALSE
    /\ LET m == FreshThread(LoopOrder, pc) IN
         /\ monitor_thread' = m
         /\ pc' = [pc EXCEPT ![m] = "loop_check"]
    /\ UNCHANGED <<engine_vars, registry_vars, store, apply_vars, reg, result, hist,
                   source_vars, sync_vars, loop_exc, detector_vars, translator, enforcement_vars, workflow_vars>>

\* stop(): set the stop event (line 102)
StopSet(t) ==
    /\ t \in CallerThreads
    /\ pc[t] = "idle"
    /\ calls < MaxCalls
    /\ calls' = calls + 1
    /\ stop_event' = TRUE
    /\ pc' = [pc EXCEPT ![t] = "stop_join"]
    /\ UNCHANGED <<engine_vars, registry_vars, store, apply_vars, reg, result, hist,
                   source_vars, sync_vars, monitor_thread, loop_exc, detector_vars, translator, enforcement_vars, workflow_vars>>

\* stop(): join(timeout) has returned, because the thread ended or because the
\* timeout elapsed; forget the thread (lines 103-105)
StopJoin(t) ==
    /\ pc[t] = "stop_join"
    /\ monitor_thread' = None
    /\ pc' = [pc EXCEPT ![t] = "idle"]
    /\ UNCHANGED <<engine_vars, registry_vars, store, apply_vars, reg, result, hist,
                   calls, source_vars, sync_vars, stop_event, loop_exc, detector_vars, translator, enforcement_vars, workflow_vars>>

\* `while not self._stop_event.is_set()`: the event is set, the loop ends (line 194)
LoopExit(m) ==
    /\ m \in LoopThreads
    /\ pc[m] = "loop_check"
    /\ stop_event
    /\ pc' = [pc EXCEPT ![m] = "exited"]
    /\ UNCHANGED <<engine_vars, registry_vars, store, apply_vars, reg, result, hist,
                   calls, source_vars, sync_vars, loop_vars, detector_vars, translator, enforcement_vars, workflow_vars>>

\* `while not self._stop_event.is_set()`: next iteration, sync_once() (lines 194-196)
LoopIterate(m) ==
    /\ m \in LoopThreads
    /\ pc[m] = "loop_check"
    /\ ~stop_event
    /\ BeginSync(m)
    /\ UNCHANGED <<engine_vars, registry_vars, store, apply_vars, reg, hist, calls,
                   source_vars, dropped, loop_vars, detector_vars, translator, enforcement_vars, workflow_vars>>

\* `finally: self._stop_event.wait(interval)` after an iteration that returned:
\* the wait ends (event set or interval elapsed), back to the loop test
LoopContinue(m) ==
    /\ m \in LoopThreads
    /\ pc[m] = "loop_wait"
    /\ ~loop_exc[m]
    /\ pc' = [pc EXCEPT ![m] = "loop_check"]
    /\ UNCHANGED <<engine_vars, registry_vars, store, apply_vars, reg, result, hist,
                   calls, source_vars, sync_vars, loop_vars, detector_vars, translator, enforcement_vars, workflow_vars>>

\* `finally: self._stop_event.wait(interval)` after an iteration that raised:
\* the try statement has no except clause, so once the wait ends the exception
\* goes on out of _run_monitor_loop and ends the thread (lines 195-198)
LoopCrash(m) ==
    /\ m \in LoopThreads
    /\ pc[m] = "loop_wait"
    /\ loop_exc[m]
    /\ pc' = [pc EXCEPT ![m] = "crashed"]
    /\ UNCHANGED <<engine_vars, registry_vars, store, apply_vars, reg, result, hist,
                   calls, source_vars, sync_vars, loop_vars, detector_vars, translator, enforcement_vars, workflow_vars>>

LoopSteps(m) ==
    \/ LoopExit(m)
    \/ LoopIterate(m)
    \/ LoopContinue(m)
    \/ LoopCrash(m)

(***************************************************************************)
(* start / stop and the run loop of the Policy Conflict Detector           *)
(***************************************************************************)
det_is_alive(d) == det_pc[d] \notin {"unborn", "exited", "crashed"}

engine_side == <<engine_vars, registry_vars, store, apply_vars, reg, result, hist,
                 source_vars, sync_vars, loop_vars, translator, enforcement_vars, workflow_vars>>

\* PolicyConflictDetector.start() while the thread is alive (lines 74-76)
DetStartNoop(t) ==
    /\ t \in CallerThreads
    /\ pc[t] = "idle"
    /\ calls < MaxCalls
    /\ det_thread # None /\ det_is_alive(det_thread)
    /\ calls' = calls + 1
    /\ UNCHANGED <<engine_side, pc, detector_vars, translator, enforcement_vars, workflow_vars>>

\* PolicyConflictDetector.start() (lines 77-79)
DetStartSpawn(t) ==
    /\ t \in CallerThreads
    /\ pc[t] = "idle"
    /\ calls < MaxCalls
    /\ ~(det_thread # None /\ det_is_alive(det_thread))
    /\ \E d \in DetectorThreads : det_pc[d] = "unborn"
    /\ calls' = calls + 1
    /\ det_stop_event' = FALSE
    /\ LET d == FreshThread(DetectorOrder, det_pc) IN
         /\ det_thread' = d
         /\ det_pc' = [det_pc EXCEPT ![d] = "loop_check"]
    /\ UNCHANGED <<engine_side, pc, det_exc>>

\* PolicyConflictDetector.stop(): set the stop event (line 82)
DetStopSet(t) ==
    /\ t \in CallerThreads
    /\ pc[t] = "idle"
    /\ calls < MaxCalls
    /\ calls' = calls + 1
    /\ det_stop_event' = TRUE
    /\ pc' = [pc EXCEPT ![t] = "det_stop_join"]
    /\ UNCHANGED <<engine_side, det_thread, det_pc, det_exc>>

\* PolicyConflictDetector.stop(): join(timeout) has returned (lines 83-85)
DetStopJoin(t) ==
    /\ pc[t] = "det_stop_join"
    /\ det_thread' = None
    /\ pc' = [pc EXCEPT ![t] = "idle"]
    /\ UNCHANGED <<engine_side, calls, det_stop_event, det_pc, det_exc>>

\* _run_loop: the stop event is set, the loop ends (line 107)
DetLoopExit(d) ==
    /\ det_pc[d] = "loop_check"
    /\ det_stop_event
    /\ det_pc' = [det_pc EXCEPT ![d] = "exited"]
    /\ UNCHANGED <<engine_side, pc, calls, det_stop_event, det_thread, det_exc>>

\* _run_loop: next iteration, scan_once() is entered (lines 107-109)
DetLoopIterate(d) ==
    /\ det_pc[d] = "loop_check"
    /\ ~det_stop_event
    /\ det_pc' = [det_pc EXCEPT ![d] = "scanning"]
    /\ UNCHANGED <<engine_side, pc, calls, det_stop_event, det_thread, det_exc>>

\* scan_once() returns its conflicts
DetScanReturn(d) ==
    /\ det_pc[d] = "scanning"
    /\ det_pc' = [det_pc EXCEPT ![d] = "loop_wait"]
    /\ UNCHANGED <<engine_side, pc, calls, det_stop_event, det_thread, det_exc>>

\* scan_once() raises: the repository, the workflow provider or the audit file
\* failed (lines 89, 92, 97)
DetScanRaise(d) ==
    /\ det_pc[d] = "scanning"
    /\ det_pc' = [det_pc EXCEPT ![d] = "loop_wait"]
    /\ det_exc' = [det_exc EXCEPT ![d] = TRUE]
    /\ UNCHANGED <<engine_side, pc, calls, det_stop_event, det_thread>>

\* `finally: self._stop_event.wait(interval)` after a scan that returned
DetLoopContinue(d) ==
    /\ det_pc[d] = "loop_wait"
    /\ ~det_exc[d]
    /\ det_pc' = [det_pc EXCEPT ![d] = "loop_check"]
    /\ UNCHANGED <<engine_side, pc, calls, det_stop_event, det_thread, det_exc>>

\* `finally: self._stop_event.wait(interval)` after a scan that raised: no except
\* clause, the exception ends the thread (lines 108-111)
DetLoopCrash(d) ==
    /\ det_pc[d] = "loop_wait"
    /\ det_exc[d]
    /\ det_pc' = [det_pc EXCEPT ![d] = "crashed"]
    /\ UNCHANGED <<engine_side, pc, calls, det_stop_event, det_thread, det_exc>>

DetectorSteps(d) ==
    \/ DetLoopExit(d)
    \/ DetLoopIterate(d)
    \/ DetScanReturn(d)
    \/ DetScanRaise(d)
    \/ DetLoopContinue(d)
    \/ DetLoopCrash(d)

(***************************************************************************)
(* The engine under concurrent callers                                     *)
(***************************************************************************)
\* the changes callers submit
Changes(pids, texts, hints) ==
    [policy_id : pids, raw_text : texts, source : SourceNames, version_hint : hints]

(***************************************************************************)
(* AtomicWorkflowStore.execute                                             *)
(***************************************************************************)
\* AtomicWorkflowStore._default_logic (the payload is handed back as it is)
_default_logic(pols) ==
    [policy_count |-> Cardinality(DOMAIN pols), active_policy_ids |-> DOMAIN pols]

\* execute, lines 286-287: the runner copies _policies of the store of w under
\* the lock of the store
ExecuteSnapshot(w) ==
    /\ execution.pc = "idle"
    /\ Len(execution.results) < MaxExecutes
    /\ execution' = [execution EXCEPT !.pc = "logic", !.snapshot = store[w]]
    /\ UNCHANGED <<engine_vars, registry_vars, store, pc, apply_vars, reg, result, hist,
                   calls, source_vars, sync_vars, loop_vars, detector_vars, translator,
                   enforcement_vars, delivered, guard_vars>>

\* execute, line 288: the workflow logic runs on the copy, outside the lock
ExecuteLogic ==
    /\ execution.pc = "logic"
    /\ execution' = [pc |-> "idle", snapshot |-> EmptyDict,
                     results |-> Append(execution.results,
                                        _default_logic(execution.snapshot))]
    /\ UNCHANGED <<engine_vars, registry_vars, store, pc, apply_vars, reg, result, hist,
                   calls, source_vars, sync_vars, loop_vars, detector_vars, translator,
                   enforcement_vars, delivered, guard_vars>>

\* LiveUpdateEngine.list_policies (lines 163-165)
list_policies == [policy_id \in DOMAIN states |-> states[policy_id].policy]

ApplySteps(t) ==
    \/ CommitNoop(t)
    \/ TranslateFail(t)
    \/ CommitChange(t)
    \/ Snapshot(t)
    \/ Deliver(t)
    \/ ReturnChanged(t)

RegisterSteps(t) ==
    \/ RegisterDeliverAll(t)
    \/ RegisterRuntimeError(t)
    \/ RegisterDeliverSubset(t)
    \/ RegisterReturn(t)

Next ==
    \E t \in CallerThreads :
      \/ \E ch \in Changes(PolicyIds, RawTexts, {NoHint}) : CallApply(t, ch)
      \/ \E w \in WorkflowIds, ps \in SUBSET PolicyIds : CallRegister(t, w, ps)
      \/ \E w \in WorkflowIds : Unregister(t, w)
      \/ ApplySteps(t)
      \/ RegisterSteps(t)

Spec == Init /\ [][Next]_vars

\* Callers that register their consumers before they submit changes:
\* no register_workflow overlaps an apply_change.
NoCallInFlight == \A t \in Threads : pc[t] \in {"idle", "unborn", "exited", "crashed"}

NoRegisterInFlight == \A t \in Threads : pc[t] # "reg_iter"

NextBroadcast ==
    \E t \in CallerThreads :
      \/ \E ch \in Changes(PolicyIds, RawTexts, {NoHint}) :
           NoRegisterInFlight /\ CallApply(t, ch)
      \/ \E w \in WorkflowIds, ps \in SUBSET PolicyIds :
           NoCallInFlight /\ CallRegister(t, w, ps)
      \/ ApplySteps(t)
      \/ RegisterDeliverAll(t)
      \/ RegisterDeliverSubset(t)
      \/ RegisterReturn(t)

SpecBroadcast == Init /\ [][NextBroadcast]_vars

\* One thread submits changes, one after the other, while another registers
\* consumers.
Applier == "t1"
Registrar == "t2"

NextJoin ==
    \/ \E ch \in Changes(PolicyIds, RawTexts, {NoHint}) : CallApply(Applier, ch)
    \/ ApplySteps(Applier)
    \/ \E w \in WorkflowIds, ps \in SUBSET PolicyIds : CallRegister(Registrar, w, ps)
    \/ RegisterSteps(Registrar)

SpecJoin == Init /\ [][NextJoin]_vars

\* The engine polled by its monitor loop, with producers pushing changes to
\* the sources, next to the Conflict Detector and its loop.
NextLoop ==
    \/ \E t \in CallerThreads :
         \/ \E s \in SourceIds : AddSource(t, s)
         \/ CallSync(t)
         \/ StartNoop(t)
         \/ StartSpawn(t)
         \/ StopSet(t)
         \/ StopJoin(t)
         \/ DetStartNoop(t)
         \/ DetStartSpawn(t)
         \/ DetStopSet(t)
         \/ DetStopJoin(t)
         \/ CallRegister(t, "wf1", {})
         \/ RegisterDeliverAll(t)
         \/ RegisterRuntimeError(t)
         \/ RegisterReturn(t)
    \/ \E s \in SourceIds, ch \in Changes({"X", "Y"}, {"a"}, {NoHint}) : PushChange(s, ch)
    \/ \E t \in Threads : ApplySteps(t) \/ SyncSteps(t)
    \/ \E m \in LoopThreads : LoopSteps(m)
    \/ \E d \in DetectorThreads : DetectorSteps(d)

SpecLoop == Init /\ [][NextLoop]_vars

\* A consumer subscribed to every policy, whose updates are recorded, executes
\* in a runner thread while the monitor loop applies what producers push.
InitHotSwap ==
    /\ InitRecording({"wf1"})
    /\ translator = DefaultVersion
    /\ InitGuardrails
    /\ InitEnforcer
    /\ InitDetector

\* two texts of policy X and one of policy Y
LiveChanges ==
    {ch \in Changes({"X", "Y"}, {"a", "b"}, {NoHint}) :
       ch.source = "feed" /\ (ch.policy_id = "Y" => ch.raw_text = "a")}

NextHotSwap ==
    \/ CallRegister("t1", "wf1", {})
    \/ RegisterDeliverAll("t1")
    \/ RegisterRuntimeError("t1")
    \/ RegisterReturn("t1")
    \/ AddSource("t1", "s1")
    \/ StartSpawn("t1")
    \/ \E ch \in LiveChanges : PushChange("s1", ch)
    \/ ApplySteps("m1") \/ SyncSteps("m1")
    \/ LoopIterate("m1") \/ LoopContinue("m1") \/ LoopCrash("m1")
    \/ ExecuteSnapshot("wf1")
    \/ ExecuteLogic

SpecHotSwap == InitHotSwap /\ [][NextHotSwap]_vars

\* Every thread that can take a step eventually takes one: a running call or
\* loop goes on, a wait on the stop event ends when the event is set or the
\* interval has elapsed, and join(timeout) returns.
LoopFairness ==
    /\ \A t \in Threads : WF_vars(ApplySteps(t) \/ SyncSteps(t))
    /\ \A m \in LoopThreads : WF_vars(LoopSteps(m))
    /\ \A d \in DetectorThreads : WF_vars(DetectorSteps(d))
    /\ \A t \in CallerThreads :
         WF_vars(StopJoin(t) \/ DetStopJoin(t) \/ RegisterDeliverAll(t)
                   \/ RegisterRuntimeError(t) \/ RegisterReturn(t))

SpecShutdown == SpecLoop /\ LoopFairness

\* the version hints of the callers: None, "", "2.0.0", "0.0.1", "1.0", "1.0.9"
\* and "1.0.²"
Hints ==
    {NoHint, <<>>, <<"2", ".", "0", ".", "0">>, <<"0", ".", "0", ".", "1">>,
     <<"1", ".", "0">>, <<"1", ".", "0", ".", "9">>, <<"1", ".", "0", ".", "sup2">>}

\* One caller applies changes to one policy id, with and without version hints,
\* while a full subscriber is registered.
NextVersions ==
    \/ \E ch \in Changes({"X"}, RawTexts, Hints) : CallApply(Applier, ch)
    \/ ApplySteps(Applier)
    \/ IncrementFail(Applier)
    \/ CallRegister(Applier, "wf1", {})
    \/ RegisterDeliverAll(Applier)
    \/ RegisterReturn(Applier)

SpecVersions == Init /\ [][NextVersions]_vars

\* The same calls on an engine built with an injected translator.
SpecInjected == InitInjected /\ [][NextVersions]_vars

(***************************************************************************)
(* Python strings and values of the enforcement layer                      *)
(* (actionable_logic/src/enforcement/engine.py). Strings the code inspects *)
(* are sequences of one-character strings.                                 *)
(***************************************************************************)
\* the characters of the model in code point order
CodePoints ==
    <<" ", "(", ")", ".", "0", "1", "2", "3", "4", "5", "6", "7", "8", "9", "=",
      "A", "B", "C", "D", "E", "F", "G", "H", "I", "J", "K", "L", "M", "N", "O",
      "P", "Q", "R", "S", "T", "U", "V", "W", "X", "Y", "Z", "_",
      "a", "b", "c", "d", "e", "f", "g", "h", "i", "j", "k", "l", "m", "n", "o",
      "p", "q", "r", "s", "t", "u", "v", "w", "x", "y", "z">>

\* the place of every character in the code point order
CodePointRanks ==
    [c \in Range(CodePoints) |-> CHOOSE i \in 1..Len(CodePoints) : CodePoints[i] = c]

CodePointRank(c) == CodePointRanks[c]

\* c.lower() for every character: "A".."Z" map to "a".."z"
LowerChars ==
    [c \in Range(CodePoints) |->
       LET r == CodePointRanks[c] IN
       IF r >= CodePointRanks["A"] /\ r <= CodePointRanks["Z"]
       THEN CodePoints[r - CodePointRanks["A"] + CodePointRanks["a"]]
       ELSE c]

LowerChar(c) == LowerChars[c]

\* s.lower()
lower(s) == [i \in 1..Len(s) |-> LowerChar(s[i])]

\* `needle in hay` for two strings
IsSubstring(needle, hay) ==
    \E i \in 0..(Len(hay) - Len(needle)) : SubSeq(hay, i + 1, i + Len(needle)) = needle

RECURSIVE StrLess(_, _)
\* x < y for two strings: lexicographic by code point
StrLess(x, y) ==
    IF y = <<>> THEN FALSE
    ELSE IF x = <<>> THEN TRUE
    ELSE IF Head(x) = Head(y) THEN StrLess(Tail(x), Tail(y))
    ELSE CodePointRank(Head(x)) < CodePointRank(Head(y))

\* the values of a state map and of LogicalCondition.value: int, str and None
IntValue(n) == [type |-> "int", n |-> n, s |-> <<>>]
StrValue(s) == [type |-> "str", n |-> 0, s |-> s]
NoneValue == [type |-> "NoneType", n |-> 0, s |-> <<>>]

\* str(v)
py_str(v) ==
    CASE v.type = "int" -> str(v.n)
      [] v.type = "str" -> v.s
      [] v.type = "NoneType" -> <<"N", "o", "n", "e">>

\* x < y does not raise TypeError: both int or both str
Orderable(x, y) == x.type = y.type /\ x.type \in {"int", "str"}

\* x < y for two orderable values
LessThan(x, y) == IF x.type = "int" THEN x.n < y.n ELSE StrLess(x.s, y.s)

\* d.get(k)
Get(d, k) == IF k \in DOMAIN d THEN d[k] ELSE None

(***************************************************************************)
(* re.search on the patterns of the model: literal characters, "." and     *)
(* parentheses. A pattern compiles iff its parentheses are balanced; a     *)
(* group without quantifier matches what its content matches.              *)
(***************************************************************************)
RECURSIVE ParenDepth(_, _)
\* the number of groups left open by p, -1 once a ")" closes nothing
ParenDepth(p, depth) ==
    IF p = <<>> THEN depth
    ELSE IF Head(p) = "(" THEN ParenDepth(Tail(p), depth + 1)
    ELSE IF Head(p) = ")" THEN (IF depth = 0 THEN -1 ELSE ParenDepth(Tail(p), depth - 1))
    ELSE ParenDepth(Tail(p), depth)

\* re.compile(p) succeeds; it raises re.error otherwise
re_compiles(p) == ParenDepth(p, 0) = 0

\* re.search(p, text) finds a match, for a pattern that compiles
re_search(p, text) ==
    LET pat == SelectSeq(p, LAMBDA c : c \notin {"(", ")"}) IN
    \E i \in 1..(Len(text) - Len(pat) + 1) :
      \A j \in 1..Len(pat) : pat[j] = "." \/ pat[j] = text[i + j - 1]

(***************************************************************************)
(* PolicyEnforcer (actionable_logic/src/enforcement/engine.py)             *)
(***************************************************************************)
\* what a condition evaluates to: True, False, or the re.error that leaves
\* _evaluate_condition
PyTrue == "True"
PyFalse == "False"
ReError == "re.error"
Bool(b) == IF b THEN PyTrue ELSE PyFalse

\* PolicyEnforcer._evaluate_condition: TypeError and ValueError are caught and
\* give False (lines 129-130); re.error is neither and leaves the method
_evaluate_condition(condition, state) ==
    IF condition.parameter \notin DOMAIN state THEN PyFalse
    ELSE LET actual_value == state[condition.parameter]
             target_value == condition.value
             op == condition.operator
         IN CASE op = "==" -> Bool(actual_value = target_value)
              [] op = "!=" -> Bool(actual_value # target_value)
              [] op = ">" -> Bool(Orderable(actual_value, target_value)
                                  /\ LessThan(target_value, actual_value))
              [] op = "<" -> Bool(Orderable(actual_value, target_value)
                                  /\ LessThan(actual_value, target_value))
              [] op = ">=" -> Bool(Orderable(actual_value, target_value)
                                   /\ ~LessThan(actual_value, target_value))
              [] op = "<=" -> Bool(Orderable(actual_value, target_value)
                                   /\ ~LessThan(target_value, actual_value))
              [] op = "contains" -> Bool(/\ actual_value.type = "str"
                                         /\ target_value.type = "str"
                                         /\ IsSubstring(target_value.s, actual_value.s))
              [] op = "matches" -> IF re_compiles(py_str(target_value))
                                   THEN Bool(re_search(py_str(target_value),
                                                       py_str(actual_value)))
                                   ELSE ReError

\* LogicalCondition, ActionTrigger, ExceptionHandler, StructuredPolicy
LogicalCondition(parameter, operator, value) ==
    [parameter |-> parameter, operator |-> operator, value |-> value]

ActionTrigger(trigger_type, action_name, parameters) ==
    [trigger_type |-> trigger_type, action_name |-> action_name, parameters |-> parameters]

ExceptionHandler(condition, override_action) ==
    [condition |-> condition, override_action |-> override_action]

StructuredPolicy(policy_id, title, domain, conditions, triggers, exceptions, instructions) ==
    [policy_id |-> policy_id, title |-> title, domain |-> domain,
     conditions |-> conditions, triggers |-> triggers, exceptions |-> exceptions,
     instructions |-> instructions]

\* an exception in flight
Raised(exception) == [kind |-> "raised", exception |-> exception]

\* PolicyEnforcer._matches_exception: some context value, lower-cased, occurs
\* in the lower-cased condition text (lines 145-151); a context that is None
\* or empty matches nothing (lines 139-140)
_matches_exception(exception, state, context) ==
    IF DOMAIN context = {} THEN FALSE
    ELSE LET cond == lower(exception.condition) IN
         \E k \in DOMAIN context :
           LET v == py_str(context[k]) IN
           \/ IsSubstring(lower(k \o <<" ", "=", "=", " ">> \o v), cond)
           \/ IsSubstring(lower(k \o <<"=", "=">> \o v), cond)
           \/ IsSubstring(lower(v), cond)

\* the exceptions of the policy that match and say "ignore", by position
IgnoringExceptions(pol, state, context) ==
    {i \in 1..Len(pol.exceptions) :
       /\ _matches_exception(pol.exceptions[i], state, context)
       /\ pol.exceptions[i].override_action = "ignore"}

\* `all(self._evaluate_condition(c, state) for c in policy.conditions) if
\* policy.conditions else True` (line 79), once no condition raised
conditions_met(pol, state) ==
    \A i \in 1..Len(pol.conditions) :
      _evaluate_condition(pol.conditions[i], state) = PyTrue

\* evaluate_single_policy where any matching exception returns at once
evaluate_single_policy_AnyOverride(pol, state, context) ==
    LET matching == {i \in 1..Len(pol.exceptions) :
                       _matches_exception(pol.exceptions[i], state, context)} IN
    IF matching # {}
    THEN LET first == CHOOSE i \in matching : \A j \in matching : i <= j IN
         [kind |-> "EnforcementResult", policy_id |-> pol.policy_id,
          is_allowed |-> TRUE, triggered_actions |-> <<>>, instructions |-> <<>>,
          violations |-> <<>>,
          metadata |-> [exception_applied |-> pol.exceptions[first].condition]]
    ELSE IF \E i \in 1..Len(pol.conditions) :
              _evaluate_condition(pol.conditions[i], state) = ReError
    THEN Raised(ReError)
    ELSE IF conditions_met(pol, state)
    THEN [kind |-> "EnforcementResult", policy_id |-> pol.policy_id,
          is_allowed |-> TRUE,
          triggered_actions |->
              SelectSeq(pol.triggers, LAMBDA t : t.trigger_type = "on_activation"),
          instructions |-> pol.instructions,
          violations |-> <<>>,
          metadata |-> [status |-> "active"]]
    ELSE [kind |-> "EnforcementResult", policy_id |-> pol.policy_id,
          is_allowed |-> TRUE, triggered_actions |-> <<>>, instructions |-> <<>>,
          violations |-> <<>>,
          metadata |-> [status |-> "inactive"]]

\* mutant of evaluate_single_policy: an active policy denies the action
evaluate_single_policy_Denies(pol, state, context) ==
    IF IgnoringExceptions(pol, state, context) = {} /\ conditions_met(pol, state)
    THEN [kind |-> "EnforcementResult", policy_id |-> pol.policy_id,
          is_allowed |-> FALSE, triggered_actions |-> <<>>,
          instructions |-> pol.instructions, violations |-> <<pol.title>>,
          metadata |-> [status |-> "active"]]
    ELSE [kind |-> "EnforcementResult", policy_id |-> pol.policy_id,
          is_allowed |-> TRUE, triggered_actions |-> <<>>, instructions |-> <<>>,
          violations |-> <<>>,
          metadata |-> [status |-> "inactive"]]

\* PolicyEnforcer.evaluate_single_policy: the first matching "ignore"
\* exception returns at once (lines 52-59); the loop of lines 65-66 evaluates
\* every condition, so a re.error of any of them leaves the method; then the
\* active (lines 82-94) or the inactive result (lines 95-101)
evaluate_single_policy(pol, state, context) ==
    LET ignoring == IgnoringExceptions(pol, state, context) IN
    IF ignoring # {}
    THEN LET first == CHOOSE i \in ignoring : \A j \in ignoring : i <= j IN
         [kind |-> "EnforcementResult", policy_id |-> pol.policy_id,
          is_allowed |-> TRUE, triggered_actions |-> <<>>, instructions |-> <<>>,
          violations |-> <<>>,
          metadata |-> [exception_applied |-> pol.exceptions[first].condition]]
    ELSE IF \E i \in 1..Len(pol.conditions) :
              _evaluate_condition(pol.conditions[i], state) = ReError
    THEN Raised(ReError)
    ELSE IF conditions_met(pol, state)
    THEN [kind |-> "EnforcementResult", policy_id |-> pol.policy_id,
          is_allowed |-> TRUE,
          triggered_actions |->
              SelectSeq(pol.triggers, LAMBDA t : t.trigger_type = "on_activation"),
          instructions |-> pol.instructions,
          violations |-> <<>>,
          metadata |-> [status |-> "active"]]
    ELSE [kind |-> "EnforcementResult", policy_id |-> pol.policy_id,
          is_allowed |-> TRUE, triggered_actions |-> <<>>, instructions |-> <<>>,
          violations |-> <<>>,
          metadata |-> [status |-> "inactive"]]

\* PolicyEnforcer.evaluate: the results in list order; an exception of any
\* policy leaves the method (lines 40-44)
evaluate(pols, state, context) ==
    LET results == [i \in 1..Len(pols) |-> evaluate_single_policy(pols[i], state, context)] IN
    IF \E i \in 1..Len(pols) : results[i].kind = "raised"
    THEN Raised(ReError)
    ELSE [kind |-> "returned", results |-> results]

(***************************************************************************)
(* AdaptiveGuardrailsEngine (enforcement/guardrails.py)                    *)
(***************************************************************************)
reroute == <<"r", "e", "r", "o", "u", "t", "e">>
suggest_correction ==
    <<"s", "u", "g", "g", "e", "s", "t", "_", "c", "o", "r", "r", "e", "c", "t", "i", "o", "n">>
agent_id_key == <<"a", "g", "e", "n", "t", "_", "i", "d">>

\* the index of the policy with this id in the list, 0 when there is none
\* (lines 58-62)
existing_idx(pols, policy_id) ==
    IF \E i \in 1..Len(pols) : pols[i].policy_id = policy_id
    THEN CHOOSE i \in 1..Len(pols) :
           /\ pols[i].policy_id = policy_id
           /\ \A j \in 1..(i - 1) : pols[j].policy_id # policy_id
    ELSE 0

\* apply_policy_update that always adds the policy at the end
Upsert_Appends(pols, pol) == Append(pols, pol)

\* the policy list after apply_policy_update (lines 64-67)
Upsert(pols, pol) ==
    IF existing_idx(pols, pol.policy_id) # 0
    THEN [pols EXCEPT ![existing_idx(pols, pol.policy_id)] = pol]
    ELSE Append(pols, pol)

\* one trigger of the loop of _analyze_policy_dynamics (lines 91-96)
AnalyzeTrigger(table, policy_id, trigger) ==
    LET target == Get(trigger.parameters, "target_workflow") IN
    IF /\ trigger.trigger_type = "on_violation"
       /\ IsSubstring(reroute, lower(trigger.action_name))
       /\ target # None /\ target # ""
    THEN DictSet(table, policy_id, target)
    ELSE table

RECURSIVE AnalyzeTriggers(_, _, _)
AnalyzeTriggers(table, policy_id, triggers) ==
    IF triggers = <<>> THEN table
    ELSE AnalyzeTriggers(AnalyzeTrigger(table, policy_id, Head(triggers)),
                         policy_id, Tail(triggers))

\* the routing table after AdaptiveGuardrailsEngine._analyze_policy_dynamics
_analyze_policy_dynamics(table, pol) ==
    AnalyzeTriggers(table, pol.policy_id, pol.triggers)

\* the number of conditions of the policy the action meets (lines 144-147)
matched_count(pol, action) ==
    Cardinality({i \in 1..Len(pol.conditions) :
                   _evaluate_condition(pol.conditions[i], action) = PyTrue})

\* the test of line 150, after the guard of lines 141-142:
\* matched_count / len(conditions) >= 0.75 is exact in binary floating point
IsNearMiss(pol, action) ==
    /\ pol.conditions # <<>>
    /\ 0 < matched_count(pol, action)
    /\ matched_count(pol, action) < Len(pol.conditions)
    /\ 4 * matched_count(pol, action) >= 3 * Len(pol.conditions)

\* AdaptiveGuardrailsEngine._detect_potential_conflicts: the near-miss policy
\* ids in list order; every condition of every policy is evaluated, so a
\* re.error leaves the method
_detect_potential_conflicts(pols, action) ==
    IF \E i \in 1..Len(pols) : \E k \in 1..Len(pols[i].conditions) :
         _evaluate_condition(pols[i].conditions[k], action) = ReError
    THEN Raised(ReError)
    ELSE LET near == SelectSeq(pols, LAMBDA p : IsNearMiss(p, action)) IN
         [kind |-> "returned",
          near_misses |-> [i \in 1..Len(near) |-> near[i].policy_id]]

\* GuardrailResponse
GuardrailResponse(action, reason, suggested_correction, target_route, applied_policies, timestamp) ==
    [kind |-> "GuardrailResponse", action |-> action, reason |-> reason,
     suggested_correction |-> suggested_correction, target_route |-> target_route,
     applied_policies |-> applied_policies, timestamp |-> timestamp]

\* domain_priority.get(p.domain, 10) (lines 166-174)
domain_priority(domain) ==
    CASE domain = "security" -> 0
      [] domain = "legal" -> 1
      [] domain = "finance" -> 2
      [] domain = "governance" -> 3
      [] domain = "cooperation" -> 4
      [] OTHER -> 10

\* sorted(policies, key=...): the sort is stable
sorted_policies(ps) ==
    SelectSeq(ps, LAMBDA p : domain_priority(p.domain) = 0)
    \o SelectSeq(ps, LAMBDA p : domain_priority(p.domain) = 1)
    \o SelectSeq(ps, LAMBDA p : domain_priority(p.domain) = 2)
    \o SelectSeq(ps, LAMBDA p : domain_priority(p.domain) = 3)
    \o SelectSeq(ps, LAMBDA p : domain_priority(p.domain) = 4)
    \o SelectSeq(ps, LAMBDA p : domain_priority(p.domain) = 10)

\* next((p for p in self._enforcer.policies if p.policy_id == policy_id), None);
\* every result comes from a policy of the list
PolicyOf(pols, policy_id) == pols[existing_idx(pols, policy_id)]

\* AdaptiveGuardrailsEngine._resolve_active_conflicts
_resolve_active_conflicts(pols, results, timestamp) ==
    LET ps == [i \in 1..Len(results) |-> PolicyOf(pols, results[i].policy_id)]
        sorted == sorted_policies(ps)
        highest_priority == sorted[1]
    IN GuardrailResponse("escalate",
                         [text |-> "Active conflict", count |-> Len(ps),
                          domain |-> highest_priority.domain,
                          title |-> highest_priority.title],
                         None, None,
                         [i \in 1..Len(sorted) |-> sorted[i].policy_id],
                         timestamp)

\* the triggers named suggest_correction, by position (lines 206-207)
CorrectionTriggers(pol) ==
    {i \in 1..Len(pol.triggers) : pol.triggers[i].action_name = suggest_correction}

\* AdaptiveGuardrailsEngine._determine_adaptive_response
_determine_adaptive_response(pols, table, res, timestamp) ==
    LET pol == PolicyOf(pols, res.policy_id) IN
    IF pol.domain \in {"security", "legal"}
    THEN GuardrailResponse("escalate",
                           [text |-> "Critical pol violation",
                            domain |-> pol.domain, title |-> pol.title],
                           None, None, <<pol.policy_id>>, timestamp)
    ELSE IF pol.policy_id \in DOMAIN table
    THEN GuardrailResponse("reroute",
                           [text |-> "suggests specialized handling",
                            policy_id |-> pol.policy_id],
                           None, table[pol.policy_id], <<pol.policy_id>>, timestamp)
    ELSE IF CorrectionTriggers(pol) # {}
    THEN LET first == CHOOSE i \in CorrectionTriggers(pol) :
                        \A j \in CorrectionTriggers(pol) : i <= j
         IN GuardrailResponse("correct",
                              [text |-> "Suggesting correction", title |-> pol.title],
                              Get(pol.triggers[first].parameters, "correction"),
                              None, <<pol.policy_id>>, timestamp)
    ELSE IF ~res.is_allowed
    THEN GuardrailResponse("block",
                           [text |-> "Action blocked", policy_id |-> res.policy_id],
                           None, None, <<res.policy_id>>, timestamp)
    ELSE GuardrailResponse("correct",
                           [text |-> "Compliance check required",
                            policy_id |-> res.policy_id],
                           "review_required", None, <<res.policy_id>>, timestamp)

\* AdaptiveGuardrailsEngine.monitor_action on an engine built without context
monitor_action(pols, table, agent_id, action, timestamp) ==
    LET eval_context == [k \in {agent_id_key} |-> StrValue(agent_id)]
        results == evaluate(pols, action, eval_context)
        potential_conflicts == _detect_potential_conflicts(pols, action)
    IN
    IF results.kind = "raised" THEN results
    ELSE IF potential_conflicts.kind = "raised" THEN potential_conflicts
    ELSE LET active_violations ==
                 SelectSeq(results.results,
                           LAMBDA r : Get(r.metadata, "status") = "active" \/ ~r.is_allowed)
             restrictive_policies ==
                 SelectSeq(active_violations,
                           LAMBDA r : r.instructions # <<>> \/ ~r.is_allowed)
         IN
         IF active_violations = <<>>
         THEN IF potential_conflicts.near_misses # <<>>
              THEN GuardrailResponse("correct",
                                     [text |-> "Potential pol conflicts detected",
                                      names |-> potential_conflicts.near_misses],
                                     "warning", None,
                                     potential_conflicts.near_misses, timestamp)
              ELSE GuardrailResponse("allow", [text |-> "No pol violations detected."],
                                     None, None, <<>>, timestamp)
         ELSE IF Len(restrictive_policies) > 1
         THEN _resolve_active_conflicts(pols, restrictive_policies, timestamp)
         ELSE _determine_adaptive_response(pols, table, active_violations[1], timestamp)

(***************************************************************************)
(* Calls on the guardrail engines and on the stand-alone enforcer          *)
(***************************************************************************)
\* engine g: apply_policy_update(policy), the whole call under the engine lock
GuardrailsApplyPolicyUpdate(g, p) ==
    /\ updates[g] < MaxUpdates
    /\ updates' = [updates EXCEPT ![g] = @ + 1]
    /\ policies' = [policies EXCEPT ![g] = Upsert(@, p)]
    /\ routing_table' = [routing_table EXCEPT ![g] = _analyze_policy_dynamics(@, p)]
    /\ response' = [response EXCEPT ![g] = Updated(p)]
    /\ UNCHANGED <<live_update_vars, monitors, enforcer_vars, conflict_vars>>

\* apply_policy_update by updater thread u, line 56: the lock is taken
UpdateAcquire(u, g, p) ==
    /\ applying[u].pc = "idle"
    /\ updates[g] < MaxUpdates
    /\ guardrail_lock[g] = Free
    /\ guardrail_lock' = [guardrail_lock EXCEPT ![g] = u]
    /\ updates' = [updates EXCEPT ![g] = @ + 1]
    /\ updated' = [updated EXCEPT ![g] = Append(@, p)]
    /\ applying' = [applying EXCEPT ![u] = [pc |-> "list", engine |-> g, policy |-> p]]
    /\ UNCHANGED <<policies, routing_table, response, monitors, enforcer_vars,
                   conflict_vars, engine_vars, registry_vars, store, pc, apply_vars,
                   reg, result, hist, calls, source_vars, sync_vars, loop_vars,
                   detector_vars, translator, delivered, execution, state_lock,
                   audit_lock>>

\* mutant of UpdateList: the lock is let go once the list is updated
UpdateList_LetsGo(u) ==
    /\ applying[u].pc = "list"
    /\ policies' = [policies EXCEPT ![applying[u].engine] = Upsert(@, applying[u].policy)]
    /\ applying' = [applying EXCEPT ![u].pc = "dynamics"]
    /\ guardrail_lock' = [guardrail_lock EXCEPT ![applying[u].engine] = Free]
    /\ UNCHANGED <<routing_table, response, updates, monitors, enforcer_vars,
                   conflict_vars, engine_vars, registry_vars, store, pc, apply_vars,
                   reg, result, hist, calls, source_vars, sync_vars, loop_vars,
                   detector_vars, translator, delivered, execution, state_lock, audit_lock, updated>>

\* apply_policy_update, lines 57-67: the policy replaces the one of its id in
\* the list, or is added
UpdateList(u) ==
    /\ applying[u].pc = "list"
    /\ policies' = [policies EXCEPT ![applying[u].engine] = Upsert(@, applying[u].policy)]
    /\ applying' = [applying EXCEPT ![u].pc = "dynamics"]
    /\ UNCHANGED <<routing_table, response, updates, monitors, enforcer_vars,
                   conflict_vars, engine_vars, registry_vars, store, pc, apply_vars,
                   reg, result, hist, calls, source_vars, sync_vars, loop_vars,
                   detector_vars, translator, delivered, execution, state_lock, audit_lock, updated,
                   guardrail_lock>>

\* apply_policy_update, line 70: the routing hints of the policy are recorded
UpdateDynamics(u) ==
    /\ applying[u].pc = "dynamics"
    /\ routing_table' = [routing_table EXCEPT ![applying[u].engine] =
                            _analyze_policy_dynamics(@, applying[u].policy)]
    /\ applying' = [applying EXCEPT ![u].pc = "conflicts"]
    /\ UNCHANGED <<policies, response, updates, monitors, enforcer_vars,
                   conflict_vars, engine_vars, registry_vars, store, pc, apply_vars,
                   reg, result, hist, calls, source_vars, sync_vars, loop_vars,
                   detector_vars, translator, delivered, execution, state_lock, audit_lock, updated,
                   guardrail_lock>>

\* apply_policy_update, lines 71-72: _check_static_conflicts only logs; the
\* call returns and the lock is released
UpdateRelease(u) ==
    /\ applying[u].pc = "conflicts"
    /\ guardrail_lock' = [guardrail_lock EXCEPT ![applying[u].engine] = Free]
    /\ response' = [response EXCEPT ![applying[u].engine] = Updated(applying[u].policy)]
    /\ applying' = [applying EXCEPT ![u] = NoUpdate]
    /\ UNCHANGED <<policies, routing_table, updates, monitors, enforcer_vars,
                   conflict_vars, engine_vars, registry_vars, store, pc, apply_vars,
                   reg, result, hist, calls, source_vars, sync_vars, loop_vars,
                   detector_vars, translator, delivered, execution, state_lock, audit_lock, updated>>

\* how many calls in a row, this one included, engine g has answered for this
\* agent and action since its last apply_policy_update
Repeats(g, agent_id, action) ==
    IF /\ response[g].kind = "called"
       /\ response[g].agent_id = agent_id
       /\ response[g].request = action
    THEN response[g].repeats + 1
    ELSE 1

\* mutant of MonitorAction: a reroute consumes the routing hint it used
MonitorAction_ConsumesHint(g, agent_id, action) ==
    /\ monitors < MaxMonitors
    /\ monitors' = monitors + 1
    /\ LET outcome == monitor_action(policies[g], routing_table[g], agent_id, action,
                                     monitors + 1)
       IN /\ response' = [response EXCEPT ![g] =
                            [kind |-> "called", agent_id |-> agent_id,
                             request |-> action, outcome |-> outcome,
                             repeats |-> Repeats(g, agent_id, action)]]
          /\ routing_table' =
                IF outcome.kind = "GuardrailResponse" /\ outcome.action = "reroute"
                THEN [routing_table EXCEPT ![g] = DictPop(@, outcome.applied_policies[1])]
                ELSE routing_table
    /\ UNCHANGED <<policies, updates, live_update_vars, enforcer_vars,
                   conflict_vars>>

\* engine g: monitor_action(agent_id, action), the whole call under the engine
\* lock; the response carries datetime.utcnow() of the call
MonitorAction(g, agent_id, action) ==
    /\ monitors < MaxMonitors
    /\ monitors' = monitors + 1
    /\ response' = [response EXCEPT ![g] =
                      [kind |-> "called", agent_id |-> agent_id, request |-> action,
                       outcome |-> monitor_action(policies[g], routing_table[g],
                                                  agent_id, action, monitors + 1),
                       repeats |-> Repeats(g, agent_id, action)]]
    /\ UNCHANGED <<policies, routing_table, updates, live_update_vars,
                   enforcer_vars, conflict_vars>>

\* monitor_action by a thread of its own, line 103: the call waits for the
\* lock and holds it until it returns
MonitorLocked(g, agent_id, action) ==
    /\ guardrail_lock[g] = Free
    /\ MonitorAction(g, agent_id, action)

\* PolicyEnforcer.add_policy
add_policy(p) ==
    /\ Len(enforcer) < MaxPolicies
    /\ enforcer' = Append(enforcer, p)
    /\ evaluated' = NoEvaluation
    /\ UNCHANGED <<live_update_vars, guardrail_vars, conflict_vars>>

\* PolicyEnforcer.evaluate(state, context)
Evaluate(state, context) ==
    /\ evaluated' = [kind |-> "called", state |-> state, context |-> context,
                     outcome |-> evaluate(enforcer, state, context)]
    /\ UNCHANGED <<enforcer, live_update_vars, guardrail_vars, conflict_vars>>

(***************************************************************************)
(* Policies, agents and actions of the model                               *)
(***************************************************************************)
admin == <<"a", "d", "m", "i", "n">>
Bob == <<"B", "o", "b">>
AgentIds == {admin, Bob}

\* `<parameter> > 10`
Gt10(parameter) == LogicalCondition(parameter, ">", IntValue(10))

\* test_basic_policy_violation: a finance limit with a block_action trigger
SpendingLimit ==
    StructuredPolicy("P1", "Spending Limit", "finance", <<Gt10("a")>>,
                     <<ActionTrigger("on_violation", <<"b", "l", "o", "c", "k">>, EmptyDict)>>,
                     <<>>, <<"Stop transaction">>)

\* test_routing_adjustment: an on_violation trigger that reroutes
LegacyRouting ==
    StructuredPolicy("P1", "Legacy System Routing", "operations", <<Gt10("a")>>,
                     <<ActionTrigger("on_violation",
                                     <<"R", "e", "r", "o", "u", "t", "e", "_", "t", "a", "s", "k">>,
                                     [target_workflow |-> "maintenance"])>>,
                     <<>>, <<"Reroute legacy tasks">>)

\* a policy that suggests a correction when it is active
RateLimit ==
    StructuredPolicy("P1", "Rate Limit", "operations", <<Gt10("a")>>,
                     <<ActionTrigger("on_violation", <<"l", "o", "g">>, EmptyDict),
                       ActionTrigger("on_activation", suggest_correction,
                                     [correction |-> "lower the amount"]),
                       ActionTrigger("on_scheduled", <<"a", "u", "d", "i", "t">>, EmptyDict)>>,
                     <<>>, <<"Slow down">>)

\* test_escalation, here without instructions
CriticalData ==
    StructuredPolicy("P2", "Critical Data Access", "security", <<Gt10("a")>>,
                     <<>>, <<>>, <<>>)

\* test_near_miss_detection: four conditions
ComplexRules ==
    StructuredPolicy("P2", "Complex Rules", "governance",
                     <<Gt10("a"), Gt10("b"), Gt10("c"), Gt10("d")>>,
                     <<>>, <<>>, <<"None">>)

\* a policy without conditions
Standing ==
    StructuredPolicy("P2", "Standing Order", "governance", <<>>, <<>>, <<>>,
                     <<"Always applies">>)

LegalHold ==
    StructuredPolicy("P3", "Legal Hold", "legal", <<Gt10("a")>>, <<>>, <<>>,
                     <<"Hold the action">>)

\* three conditions
ThreeRules ==
    StructuredPolicy("P3", "Three Rules", "cooperation",
                     <<Gt10("a"), Gt10("b"), Gt10("c")>>, <<>>, <<>>, <<"Cooperate">>)

\* a matches condition whose pattern "(" does not compile
Pattern ==
    StructuredPolicy("P3", "Pattern", "ethics",
                     <<LogicalCondition("b", "matches", StrValue(<<"(">>))>>,
                     <<>>, <<>>, <<"Check the name">>)

\* a policy that an exception waives for the agent Bob
Waived ==
    StructuredPolicy("P3", "Waived", "ethics", <<Gt10("a")>>, <<>>,
                     <<ExceptionHandler(agent_id_key \o <<" ", "=", "=", " ">> \o Bob,
                                        "ignore")>>,
                     <<"Review">>)

GuardrailPolicies ==
    {SpendingLimit, LegacyRouting, RateLimit, CriticalData, ComplexRules, Standing,
     LegalHold, ThreeRules, Pattern, Waived}

\* one policy per policy id: the policies two engines receive in either order
OrderPolicies == {SpendingLimit, CriticalData, LegalHold}

\* comparisons across types, `contains`, a pattern that compiles, None
Mixed ==
    StructuredPolicy("P4", "Mixed", "operations",
                     <<LogicalCondition("a", "<", StrValue(<<"x">>)),
                       LogicalCondition("b", "contains", StrValue(<<"x">>))>>,
                     <<>>, <<>>, <<"Compare">>)

Matcher ==
    StructuredPolicy("P4", "Matcher", "operations",
                     <<LogicalCondition("b", "matches", StrValue(<<"(", "x", ".", ")">>)),
                       LogicalCondition("a", "!=", NoneValue)>>,
                     <<>>,
                     <<ExceptionHandler(agent_id_key \o <<"=", "=">> \o Bob, "log_only")>>,
                     <<"Match">>)

Exactly15 ==
    StructuredPolicy("P4", "Exactly 15", "finance",
                     <<LogicalCondition("a", ">=", IntValue(15)),
                       LogicalCondition("a", "<=", IntValue(15)),
                       LogicalCondition("a", "==", IntValue(15))>>,
                     <<ActionTrigger("on_activation", <<"l", "o", "g">>, EmptyDict)>>,
                     <<>>, <<"Log">>)

\* a policy whose pattern does not compile, waived for Bob by the second and
\* the third of its exceptions
WaivedPattern ==
    StructuredPolicy("P4", "Waived Pattern", "ethics",
                     <<LogicalCondition("b", "matches", StrValue(<<"(">>))>>,
                     <<ActionTrigger("on_activation", <<"l", "o", "g">>, EmptyDict)>>,
                     <<ExceptionHandler(agent_id_key \o <<"=", "=">> \o Bob, "log_only"),
                       ExceptionHandler(agent_id_key \o <<" ", "=", "=", " ">> \o Bob, "ignore"),
                       ExceptionHandler(<<"b", "o", "b">>, "ignore")>>,
                     <<"Check the name">>)

EnforcerPolicies == GuardrailPolicies \cup {Mixed, Matcher, Exactly15, WaivedPattern}

\* the actions (state maps) of the callers
Actions ==
    {EmptyDict,
     [a |-> IntValue(5)],
     [a |-> IntValue(15)],
     [a |-> StrValue(<<"x">>)],
     [a |-> IntValue(15), b |-> StrValue(<<"x", "y">>)],
     [a |-> IntValue(15), b |-> IntValue(15), c |-> IntValue(15), d |-> IntValue(5)],
     [a |-> IntValue(15), b |-> IntValue(15), c |-> IntValue(5), d |-> IntValue(5)],
     [a |-> IntValue(5), b |-> IntValue(15), c |-> IntValue(15), d |-> IntValue(15)]}

\* the states of the callers of evaluate
States ==
    Actions \cup {[a |-> NoneValue, b |-> StrValue(<<"a", "x", "b">>)],
                  [a |-> StrValue(<<"a">>), b |-> StrValue(<<"x">>)]}

\* the contexts of evaluate: None, and the agent id of a caller
Contexts == {EmptyDict} \cup {[k \in {agent_id_key} |-> StrValue(agent)] : agent \in AgentIds}

(***************************************************************************)
(* Specifications of the enforcement layer                                 *)
(***************************************************************************)
\* One guardrail engine receives policies and monitors actions.
NextGuardrails ==
    \/ \E p \in GuardrailPolicies : GuardrailsApplyPolicyUpdate("g1", p)
    \/ \E agent \in AgentIds, act \in Actions : MonitorAction("g1", agent, act)

SpecGuardrails == Init /\ [][NextGuardrails]_vars

\* Two updater threads pass versions of P1 and a second policy to a guardrail
\* engine while a third thread monitors actions.
UpdatePolicies == {SpendingLimit, LegacyRouting, CriticalData}

NextConcurrentUpdates ==
    \/ \E u \in Updaters, p \in UpdatePolicies : UpdateAcquire(u, "g1", p)
    \/ \E u \in Updaters : UpdateList(u)
    \/ \E u \in Updaters : UpdateDynamics(u)
    \/ \E u \in Updaters : UpdateRelease(u)
    \/ \E act \in {[a |-> IntValue(5)], [a |-> IntValue(15)]} :
         MonitorLocked("g1", admin, act)

SpecConcurrentUpdates == Init /\ [][NextConcurrentUpdates]_vars

\* Two guardrail engines receive policies of distinct ids, in any order.
NextEngines ==
    \/ \E g \in Engines, p \in OrderPolicies : GuardrailsApplyPolicyUpdate(g, p)
    \/ \E g \in Engines, act \in {[a |-> IntValue(5)], [a |-> IntValue(15)]} :
         MonitorAction(g, admin, act)

SpecEngines == Init /\ [][NextEngines]_vars

\* A stand-alone enforcer receives policies and evaluates states.
NextEnforcer ==
    \/ \E p \in EnforcerPolicies : add_policy(p)
    \/ \E state \in States, context \in Contexts : Evaluate(state, context)

SpecEnforcer == Init /\ [][NextEnforcer]_vars

\* the policies with exceptions, and policies without for comparison
ExceptionPolicies == {Waived, WaivedPattern, Matcher, Pattern, Exactly15, RateLimit}

\* A stand-alone enforcer receives policies with exceptions and evaluates states.
NextExceptions ==
    \/ \E p \in ExceptionPolicies : add_policy(p)
    \/ \E state \in States, context \in Contexts : Evaluate(state, context)

SpecExceptions == Init /\ [][NextExceptions]_vars

(***************************************************************************)
(* PolicyConflictDetector (enforcement/policy_conflict_detector.py):       *)
(* the pairwise analysis of two policies                                   *)
(***************************************************************************)
\* a policy as the detector reads it
RepositoryPolicy(policy_id, domain, compliance_type, effective_date, conditions, triggers, instructions) ==
    [policy_id |-> policy_id, domain |-> domain, compliance_type |-> compliance_type,
     effective_date |-> effective_date, conditions |-> conditions,
     triggers |-> triggers, instructions |-> instructions]

\* float(value) succeeds: an int, or a str of decimal digits (the numeric
\* strings of the model); None raises TypeError, other strings ValueError
_is_numeric(value) ==
    \/ value.type = "int"
    \/ /\ value.type = "str"
       /\ value.s # <<>>
       /\ \A i \in 1..Len(value.s) : value.s[i] \in AsciiDigits

\* float(value) of a numeric value
float(value) == IF value.type = "int" THEN value.n ELSE int(value.s)

\* a float: finite (inf = 0), float("-inf") (inf = -1) or float("inf") (inf = 1)
Finite(n) == [inf |-> 0, n |-> n]
NegInf == [inf |-> -1, n |-> 0]
PosInf == [inf |-> 1, n |-> 0]

\* x < y on floats
FloatLess(x, y) == x.inf < y.inf \/ (x.inf = 0 /\ y.inf = 0 /\ x.n < y.n)

\* max(x, y) and min(x, y): the first argument unless the second is larger
\* (smaller)
FloatMax(x, y) == IF FloatLess(x, y) THEN y ELSE x
FloatMin(x, y) == IF FloatLess(y, x) THEN y ELSE x

\* Python == on two values: an int never equals a str or None
ValuesEqual(x, y) == x = y

\* PolicyConflictDetector._numeric_bounds
_numeric_bounds(condition) ==
    LET value == Finite(float(condition.value)) IN
    CASE condition.operator = ">" ->
           [low |-> value, low_inclusive |-> FALSE, high |-> PosInf, high_inclusive |-> TRUE]
      [] condition.operator = ">=" ->
           [low |-> value, low_inclusive |-> TRUE, high |-> PosInf, high_inclusive |-> TRUE]
      [] condition.operator = "<" ->
           [low |-> NegInf, low_inclusive |-> TRUE, high |-> value, high_inclusive |-> FALSE]
      [] condition.operator = "<=" ->
           [low |-> NegInf, low_inclusive |-> TRUE, high |-> value, high_inclusive |-> TRUE]
      [] condition.operator = "==" ->
           [low |-> value, low_inclusive |-> TRUE, high |-> value, high_inclusive |-> TRUE]
      [] OTHER ->
           [low |-> NegInf, low_inclusive |-> TRUE, high |-> PosInf, high_inclusive |-> TRUE]

\* PolicyConflictDetector._numeric_intersection_exists
_numeric_intersection_exists(left, right) ==
    LET l == _numeric_bounds(left)
        r == _numeric_bounds(right)
        low == FloatMax(l.low, r.low)
        high == FloatMin(l.high, r.high)
        left_inclusive == IF low = l.low THEN l.low_inclusive ELSE l.high_inclusive
        right_inclusive == IF low = r.low THEN r.low_inclusive ELSE r.high_inclusive
    IN IF FloatLess(low, high) THEN TRUE
       ELSE IF FloatLess(high, low) THEN FALSE
       ELSE left_inclusive /\ right_inclusive

\* PolicyConflictDetector._conditions_contradict: the reason, "" when the
\* conditions do not contradict
_conditions_contradict(left, right) ==
    IF /\ left.operator = "==" /\ right.operator = "=="
       /\ ~ValuesEqual(left.value, right.value)
    THEN "same parameter requires two different exact values"
    ELSE IF /\ left.operator = "==" /\ right.operator = "!="
            /\ ValuesEqual(left.value, right.value)
    THEN "exact match conflicts with explicit inequality"
    ELSE IF /\ right.operator = "==" /\ left.operator = "!="
            /\ ValuesEqual(left.value, right.value)
    THEN "exact match conflicts with explicit inequality"
    ELSE IF /\ _is_numeric(left.value) /\ _is_numeric(right.value)
            /\ ~_numeric_intersection_exists(left, right)
    THEN "numeric ranges do not intersect"
    ELSE ""

\* PolicyConflictDetector._conditions_overlap
_conditions_overlap(left, right) ==
    IF left.operator = "==" /\ right.operator = "=="
    THEN ValuesEqual(left.value, right.value)
    ELSE IF left.operator = "!=" /\ right.operator = "!="
    THEN TRUE
    ELSE IF left.operator = "contains" /\ right.operator = "contains"
    THEN py_str(left.value) = py_str(right.value)
    ELSE IF left.operator = "matches" /\ right.operator = "matches"
    THEN py_str(left.value) = py_str(right.value)
    ELSE IF _is_numeric(left.value) /\ _is_numeric(right.value)
    THEN _numeric_intersection_exists(left, right)
    ELSE py_str(left.value) = py_str(right.value)

\* the pairs of condition positions of the nested loops, on the same parameter
SameParameter(left, right) ==
    {ij \in (1..Len(left.conditions)) \X (1..Len(right.conditions)) :
       left.conditions[ij[1]].parameter = right.conditions[ij[2]].parameter}

\* the first pair of a non-empty set of pairs in the order of the nested loops
FirstPair(pairs) ==
    CHOOSE ij \in pairs :
      \A kl \in pairs : ij[1] < kl[1] \/ (ij[1] = kl[1] /\ ij[2] <= kl[2])

\* the evidence of a conflict on the pair of conditions
Evidence(left_cond, right_cond, reason) ==
    [parameter |-> left_cond.parameter,
     left_operator |-> left_cond.operator, left_value |-> py_str(left_cond.value),
     right_operator |-> right_cond.operator, right_value |-> py_str(right_cond.value),
     reason |-> reason]

NoEvidence == [parameter |-> "None"]

\* PolicyConflictDetector._policies_contradict: (flag, evidence)
_policies_contradict(left, right) ==
    LET pairs == {ij \in SameParameter(left, right) :
                    _conditions_contradict(left.conditions[ij[1]],
                                           right.conditions[ij[2]]) # ""}
    IN IF pairs = {} THEN <<FALSE, NoEvidence>>
       ELSE LET ij == FirstPair(pairs) IN
            <<TRUE, Evidence(left.conditions[ij[1]], right.conditions[ij[2]],
                             _conditions_contradict(left.conditions[ij[1]],
                                                    right.conditions[ij[2]]))>>

\* PolicyConflictDetector._policies_overlap: (flag, evidence)
_policies_overlap(left, right) ==
    LET pairs == {ij \in SameParameter(left, right) :
                    _conditions_overlap(left.conditions[ij[1]], right.conditions[ij[2]])}
    IN IF \/ left.conditions = <<>> \/ right.conditions = <<>>
          \/ pairs = {}
          \/ (left.instructions = right.instructions /\ left.triggers = right.triggers)
       THEN <<FALSE, NoEvidence>>
       ELSE LET ij == FirstPair(pairs) IN
            <<TRUE, Evidence(left.conditions[ij[1]], right.conditions[ij[2]], "")>>

\* _classify_severity that looks at the finance domain before the legal one
_classify_severity_FinanceFirst(left, right) ==
    LET domains == {left.domain, right.domain} IN
    IF "security" \in domains THEN "safety_critical"
    ELSE IF "finance" \in domains THEN "high"
    ELSE IF \/ "legal" \in domains
            \/ left.compliance_type \notin {None, ""}
            \/ right.compliance_type \notin {None, ""}
    THEN "legal_compliance"
    ELSE "medium"

\* PolicyConflictDetector._classify_severity; a compliance_type of None or ""
\* is falsy
_classify_severity(left, right) ==
    LET domains == {left.domain, right.domain} IN
    IF "security" \in domains THEN "safety_critical"
    ELSE IF \/ "legal" \in domains
            \/ left.compliance_type \notin {None, ""}
            \/ right.compliance_type \notin {None, ""}
    THEN "legal_compliance"
    ELSE IF "finance" \in domains THEN "high"
    ELSE "medium"

\* _SEVERITY_PRIORITY
_SEVERITY_PRIORITY(severity) ==
    CASE severity = "safety_critical" -> 0
      [] severity = "legal_compliance" -> 1
      [] severity = "high" -> 2
      [] severity = "medium" -> 3

\* PolicyConflictDetector._build_suggestions, each suggestion by its subject
_build_suggestions(left, right, conflict_type, severity, workflow_id) ==
    (IF severity \in {"safety_critical", "legal_compliance"}
     THEN <<[suggestion |-> "prioritize",
             subject |-> IF left.domain \in {"security", "legal"}
                         THEN left.policy_id ELSE right.policy_id]>>
     ELSE <<>>)
    \o (IF conflict_type = "contradictory_rule"
        THEN <<[suggestion |-> "precedence", subject |-> "None"],
               [suggestion |-> "split", subject |-> "None"]>>
        ELSE <<[suggestion |-> "refine", subject |-> "None"],
               [suggestion |-> "consolidate", subject |-> "None"]>>)
    \o (IF workflow_id # "None"
        THEN <<[suggestion |-> "pin", subject |-> workflow_id]>>
        ELSE <<>>)

\* PolicyConflictDetector._build_conflict at time `timestamp`
_build_conflict(left, right, conflict_type, workflow_id, details, timestamp) ==
    LET severity == _classify_severity(left, right) IN
    [conflict_id |-> <<IF workflow_id # "None" THEN workflow_id ELSE "repository",
                       left.policy_id, right.policy_id, conflict_type>>,
     detected_at |-> timestamp,
     severity |-> severity,
     conflict_type |-> conflict_type,
     policy_ids |-> <<left.policy_id, right.policy_id>>,
     workflow_id |-> workflow_id,
     resolution_suggestions |->
         _build_suggestions(left, right, conflict_type, severity, workflow_id),
     evidence |-> details]

(***************************************************************************)
(* PolicyConflictDetector: scanning a collection, the audit log            *)
(***************************************************************************)
\* itertools.combinations(range(n), 2): the pairs i < j in lexicographic order
combinations(n) ==
    SelectSeq([k \in 1..(n * n) |-> <<((k - 1) \div n) + 1, ((k - 1) % n) + 1>>],
              LAMBDA ij : ij[1] < ij[2])

\* what _scan_policy_collection finds for the pair: a contradiction comes
\* before an overlap (lines 116-139)
ConflictTypeOf(left, right) ==
    IF _policies_contradict(left, right)[1] THEN "contradictory_rule"
    ELSE IF _policies_overlap(left, right)[1] THEN "overlapping_enforcement"
    ELSE "None"

\* the details of the conflict of the pair: those of the contradiction, else
\* those of the overlap
DetailsOf(left, right) ==
    IF _policies_contradict(left, right)[1] THEN _policies_contradict(left, right)[2]
    ELSE _policies_overlap(left, right)[2]

\* PolicyConflictDetector._scan_policy_collection; the k-th conflict is built
\* at time timestamp + k
_scan_policy_collection(pols, workflow_id, timestamp) ==
    LET flagged == SelectSeq(combinations(Len(pols)),
                             LAMBDA ij : ConflictTypeOf(pols[ij[1]], pols[ij[2]]) # "None")
    IN [k \in 1..Len(flagged) |->
          _build_conflict(pols[flagged[k][1]], pols[flagged[k][2]],
                          ConflictTypeOf(pols[flagged[k][1]], pols[flagged[k][2]]),
                          workflow_id,
                          DetailsOf(pols[flagged[k][1]], pols[flagged[k][2]]),
                          timestamp + k)]

\* mutant of _latest_by_policy_id: every listed version takes part
_latest_by_policy_id_All(pols) == pols

\* PolicyConflictDetector._latest_by_policy_id: one policy per policy_id, in
\* the order in which the ids first occur; a later policy replaces the current
\* one when its effective_date is not earlier (line 150)
_latest_by_policy_id(pols) ==
    LET firsts == SelectSeq([i \in 1..Len(pols) |-> i],
                            LAMBDA i : \A j \in 1..(i - 1) :
                                         pols[j].policy_id # pols[i].policy_id)
        latest(policy_id) ==
            CHOOSE i \in 1..Len(pols) :
              /\ pols[i].policy_id = policy_id
              /\ \A j \in 1..Len(pols) :
                   pols[j].policy_id = policy_id =>
                     \/ pols[j].effective_date < pols[i].effective_date
                     \/ (pols[j].effective_date = pols[i].effective_date /\ j <= i)
    IN [k \in 1..Len(firsts) |-> pols[latest(pols[firsts[k]].policy_id)]]

\* conflicts.sort(key=(severity priority, detected_at)) (line 96): the sort is
\* stable and the conflicts were built in the order of their time stamps
SortConflicts(conflicts) ==
    SelectSeq(conflicts, LAMBDA c : _SEVERITY_PRIORITY(c.severity) = 0)
    \o SelectSeq(conflicts, LAMBDA c : _SEVERITY_PRIORITY(c.severity) = 1)
    \o SelectSeq(conflicts, LAMBDA c : _SEVERITY_PRIORITY(c.severity) = 2)
    \o SelectSeq(conflicts, LAMBDA c : _SEVERITY_PRIORITY(c.severity) = 3)

\* self._audit_log[-limit:] for 0 <= limit < len(self._audit_log): the slice
\* starts at len - limit, and at 0 when limit is 0 (-0 is 0)
LastSlice(log, limit) ==
    LET start == IF limit = 0 THEN 0 ELSE Len(log) - limit IN
    SubSeq(log, start + 1, Len(log))

\* PolicyConflictDetector.get_audit_log(limit)
get_audit_log(log, limit) ==
    IF limit.type = "NoneType" \/ limit.n >= Len(log) THEN log
    ELSE LastSlice(log, limit.n)

\* PolicyRepository.save_policy: one more record
SavePolicy(p) ==
    /\ Len(repository) < MaxRecords
    /\ repository' = Append(repository, p)
    /\ UNCHANGED <<audit_log, audit_file, scan, detections, scans, fetched, compared,
                   live_update_vars, guardrail_vars, enforcer_vars>>

\* scan_once, lines 88-96: the conflicts of the latest repository policies,
\* sorted (the detector has no workflow provider)
ScanCollect(t) ==
    /\ scan[t].pc \in {"idle", "returned"}
    /\ scans < MaxScans
    /\ scans' = scans + 1
    /\ \E latest_repo \in {_latest_by_policy_id(repository)} :
       \E found \in {_scan_policy_collection(latest_repo, "None", detections)} :
       \E conflicts \in {SortConflicts(found)} :
         /\ scan' = [scan EXCEPT ![t] = [pc |-> "append", conflicts |-> conflicts,
                                         written |-> 0]]
         /\ detections' = detections + Len(conflicts)
    /\ UNCHANGED <<repository, audit_log, audit_file, fetched, compared,
                   live_update_vars, guardrail_vars, enforcer_vars>>

\* _append_audit_entries that keeps only the conflicts of this scan
ScanAppendLog_Replaces(t) ==
    /\ scan[t].pc = "append"
    /\ IF scan[t].conflicts = <<>>
       THEN /\ scan' = [scan EXCEPT ![t].pc = "return"]
            /\ UNCHANGED audit_log
       ELSE /\ audit_log' = scan[t].conflicts
            /\ scan' = [scan EXCEPT ![t].pc = "file"]
    /\ UNCHANGED <<repository, audit_file, detections, scans, fetched, compared,
                   live_update_vars, guardrail_vars, enforcer_vars>>

\* _append_audit_entries, lines 338-341: nothing to do without conflicts,
\* else the log is extended under the lock
ScanAppendLog(t) ==
    /\ scan[t].pc = "append"
    /\ IF scan[t].conflicts = <<>>
       THEN /\ scan' = [scan EXCEPT ![t].pc = "return"]
            /\ UNCHANGED audit_log
       ELSE /\ audit_log' = audit_log \o scan[t].conflicts
            /\ scan' = [scan EXCEPT ![t].pc = "file"]
    /\ UNCHANGED <<repository, audit_file, detections, scans, fetched, compared,
                   live_update_vars, guardrail_vars, enforcer_vars>>

\* _append_audit_entries, lines 343-353, and _append_audit_file: the next
\* conflict is written as one line at the end of the file
ScanAppendFile(t) ==
    /\ scan[t].pc = "file"
    /\ scan[t].written < Len(scan[t].conflicts)
    /\ audit_file' = Append(audit_file, scan[t].conflicts[scan[t].written + 1])
    /\ scan' = [scan EXCEPT ![t].written = @ + 1]
    /\ UNCHANGED <<repository, audit_log, detections, scans, fetched, compared,
                   live_update_vars, guardrail_vars, enforcer_vars>>

\* scan_once, line 98
ScanReturn(t) ==
    /\ \/ scan[t].pc = "return"
       \/ scan[t].pc = "file" /\ scan[t].written = Len(scan[t].conflicts)
    /\ scan' = [scan EXCEPT ![t].pc = "returned"]
    /\ UNCHANGED <<repository, audit_log, audit_file, detections, scans, fetched,
                   compared, live_update_vars, guardrail_vars, enforcer_vars>>

\* get_audit_log(limit), under the lock
GetAuditLog(limit) ==
    /\ fetched' = [kind |-> "called", limit |-> limit, log |-> audit_log,
                   result |-> get_audit_log(audit_log, limit)]
    /\ UNCHANGED <<repository, audit_log, audit_file, scan, detections, scans,
                   compared, live_update_vars, guardrail_vars, enforcer_vars>>

\* scan_once lines 88-90 of detector d over the policies its repository
\* lists: the conflicts among the latest policies
ScanCollection(d) ==
    /\ compared[d].kind = "given"
    /\ \E latest_repo \in {_latest_by_policy_id(compared[d].listed)} :
         compared' = [compared EXCEPT ![d] =
                        [kind |-> "scanned", listed |-> compared[d].listed,
                         conflicts |-> _scan_policy_collection(latest_repo, "None", 0)]]
    /\ UNCHANGED <<repository, audit_log, audit_file, scan, detections, scans,
                   fetched, live_update_vars, guardrail_vars, enforcer_vars>>

(***************************************************************************)
(* Policies and specifications of the conflict detector                    *)
(***************************************************************************)
Operators == {">", "<", ">=", "<=", "==", "!=", "contains", "matches"}

\* the values of the conditions: numbers, a numeric string, a word, None
ConditionValues ==
    {IntValue(5), IntValue(200), IntValue(500), StrValue(<<"5">>), StrValue(<<"x">>),
     NoneValue}

amount == <<"a", "m", "o", "u", "n", "t">>
score == <<"s", "c", "o", "r", "e">>

\* the condition lists of the analysed policies: every single condition on
\* amount, none, and lists over two parameters
ConditionLists ==
    {<<LogicalCondition(amount, op, v)>> : op \in Operators, v \in ConditionValues}
    \cup {<<>>,
          <<LogicalCondition(score, "==", IntValue(5)),
            LogicalCondition(amount, ">", IntValue(500))>>,
          <<LogicalCondition(score, "==", IntValue(200)),
            LogicalCondition(amount, "<", IntValue(200))>>,
          <<LogicalCondition(amount, ">=", IntValue(5)),
            LogicalCondition(score, "!=", IntValue(5))>>,
          <<LogicalCondition(score, ">", IntValue(5))>>}

\* test_detects_repository_contradictions...: the two sides of a comparison
LeftPolicy(conditions) ==
    RepositoryPolicy("POL-L", "governance", None, 0, conditions, <<>>, <<"Rule 1">>)
RightPolicy(conditions) ==
    RepositoryPolicy("POL-R", "operations", None, 0, conditions, <<>>, <<"Rule 2">>)

\* the pairs of policies over the condition lists
ConditionPairs ==
    {<<LeftPolicy(l), RightPolicy(r)>> : l \in ConditionLists, r \in ConditionLists}

\* A detector analyses a pair of policies.
NextContradiction == ScanCollection("d1")

SpecContradiction == InitGiven(ConditionPairs, {<<>>}) /\ [][NextContradiction]_vars

Domains ==
    {"governance", "finance", "operations", "ethics", "security", "legal", "cooperation"}

\* a policy of the domain, with or without a compliance framework, whose
\* condition contradicts that of every policy of the other side
LeftOf(domain, compliance_type) ==
    RepositoryPolicy("POL-L", domain, compliance_type, 0,
                     <<LogicalCondition(amount, ">", IntValue(500))>>, <<>>, <<"Rule 1">>)
RightOf(domain, compliance_type) ==
    RepositoryPolicy("POL-R", domain, compliance_type, 0,
                     <<LogicalCondition(amount, "<", IntValue(200))>>, <<>>, <<"Rule 2">>)

ComplianceTypes == {None, "", "SOX"}

\* the pairs of contradicting policies over the domains
DomainPairs ==
    {<<LeftOf(ld, lc), RightOf(rd, rc)>> :
       ld \in Domains, rd \in Domains, lc \in ComplianceTypes, rc \in ComplianceTypes}

\* A detector classifies the conflict of a pair of policies.
NextSeverity == ScanCollection("d1")

SpecSeverity == InitGiven(DomainPairs, {<<>>}) /\ [][NextSeverity]_vars

\* policies that contradict, overlap or do neither
Above500 ==
    RepositoryPolicy("POL-SEC", "security", None, 1,
                     <<LogicalCondition(amount, ">", IntValue(500))>>, <<>>,
                     <<"Escalate">>)
Below200 ==
    RepositoryPolicy("POL-LEGAL", "legal", "SOX", 1,
                     <<LogicalCondition(amount, "<", IntValue(200))>>, <<>>,
                     <<"Block">>)
Exactly5 ==
    RepositoryPolicy("POL-A", "governance", None, 1,
                     <<LogicalCondition(score, "==", IntValue(5)),
                       LogicalCondition(amount, "==", IntValue(5))>>, <<>>,
                     <<"Log">>)
Not5 ==
    RepositoryPolicy("POL-B", "operations", None, 1,
                     <<LogicalCondition(amount, "!=", IntValue(5))>>, <<>>,
                     <<"Route">>)
AtLeast5 ==
    RepositoryPolicy("POL-C", "finance", None, 1,
                     <<LogicalCondition(amount, ">=", StrValue(<<"5">>)),
                       LogicalCondition(score, "contains", StrValue(<<"x">>))>>, <<>>,
                     <<"Review">>)
\* another version of POL-LEGAL of the same effective date, on another
\* parameter
Below200Score ==
    RepositoryPolicy("POL-LEGAL", "legal", "SOX", 1,
                     <<LogicalCondition(score, "<", IntValue(200))>>, <<>>,
                     <<"Block">>)

SymmetryPolicies == {Above500, Below200, Below200Score, Exactly5, Not5, AtLeast5}

Distinct(pols) == \A i, j \in 1..Len(pols) : i # j => pols[i] # pols[j]

\* the lists of two or three distinct policies
PolicyLists ==
    {pols \in {<<p, q>> : p \in SymmetryPolicies, q \in SymmetryPolicies} \cup
              {<<p, q, r>> : p \in SymmetryPolicies, q \in SymmetryPolicies,
                             r \in SymmetryPolicies} : Distinct(pols)}

\* Two detectors analyse policy lists, each in the order it was given.
NextSymmetry == \E d \in Detectors : ScanCollection(d)

SpecSymmetry == InitGiven(PolicyLists, PolicyLists) /\ [][NextSymmetry]_vars

Below500 ==
    RepositoryPolicy("POL-FIN", "finance", None, 1,
                     <<LogicalCondition(amount, "<", IntValue(500))>>, <<>>,
                     <<"Hold">>)

AuditPolicies == {Above500, Below200, Below200Score, Below500}

\* the repositories of two or three distinct policies
Repositories ==
    {pols \in {<<p, q>> : p \in AuditPolicies, q \in AuditPolicies} \cup
              {<<p, q, r>> : p \in AuditPolicies, q \in AuditPolicies,
                             r \in AuditPolicies} : Distinct(pols)}

\* Policies are saved while the run loop and a caller scan.
NextAudit ==
    \/ \E p \in AuditPolicies : SavePolicy(p)
    \/ \E t \in Scanners : ScanCollect(t)
    \/ \E t \in Scanners : ScanAppendLog(t)
    \/ \E t \in Scanners : ScanAppendFile(t)
    \/ \E t \in Scanners : ScanReturn(t)

SpecAudit == InitRepository(Repositories) /\ [][NextAudit]_vars

\* later versions of POL-SEC and POL-LEGAL, about another parameter
SecLater ==
    RepositoryPolicy("POL-SEC", "security", None, 2,
                     <<LogicalCondition(score, ">", IntValue(500))>>, <<>>,
                     <<"Escalate">>)
LegalLater ==
    RepositoryPolicy("POL-LEGAL", "legal", "SOX", 2,
                     <<LogicalCondition(score, "<", IntValue(200))>>, <<>>,
                     <<"Block">>)

VersionPolicies == {Above500, SecLater, Below200, LegalLater, Below200Score, Below500}

\* the lists of two or three distinct policy versions
VersionLists ==
    {pols \in {<<p, q>> : p \in VersionPolicies, q \in VersionPolicies} \cup
              {<<p, q, r>> : p \in VersionPolicies, q \in VersionPolicies,
                             r \in VersionPolicies} : Distinct(pols)}

\* A detector scans a repository that lists several versions of its policies.
NextLatest == ScanCollection("d1")

SpecLatest == InitGiven(VersionLists, {<<>>}) /\ [][NextLatest]_vars

\* the limits of get_audit_log: None and 0..MaxLimit
Limits == {NoneValue} \cup {IntValue(n) : n \in 0..MaxLimit}

\* A caller scans and reads the audit log.
NextRetrieval ==
    \/ ScanCollect("caller")
    \/ ScanAppendLog("caller")
    \/ ScanAppendFile("caller")
    \/ ScanReturn("caller")
    \/ \E limit \in Limits : GetAuditLog(limit)

SpecRetrieval == InitRepository(Repositories) /\ [][NextRetrieval]_vars

(***************************************************************************)
(* Properties                                                              *)
(***************************************************************************)
\* LiveUpdateEngine.get_policy
get_policy(policy_id) ==
    IF policy_id \in DOMAIN states THEN states[policy_id].policy ELSE NoPolicy

\* the outcomes of the apply_change calls for one policy id, in state-lock order
PolicyHist(p) == SelectSeq(hist, LAMBDA e : e.policy_id = p)

\* the consumer w subscribes to policy p
Subscribed(w, p) == subscriptions[w] = {} \/ p \in subscriptions[w]

\* C1: applying the same change twice in a row gives changed=true (when the
\* text is new for the policy id) and then changed=false, and get_policy
\* returns the same version after the second call as after the first.
C1_Idempotent ==
    \A p \in PolicyIds :
      LET h == PolicyHist(p) IN
      /\ \A i \in 1..(Len(h) - 1) :
           h[i].raw_text = h[i + 1].raw_text =>
             /\ ~h[i + 1].changed
             /\ h[i + 1].version = h[i].version
             /\ (i = 1 \/ h[i - 1].raw_text # h[i].raw_text) => h[i].changed
      /\ Len(h) > 0 => get_policy(p).version = h[Len(h)].version

C1_Witness ==
    \E p \in PolicyIds :
      LET h == PolicyHist(p) IN
      /\ Len(h) = 2
      /\ h[1].raw_text = h[2].raw_text
      /\ h[1].changed /\ ~h[2].changed
      /\ get_policy(p).version = DefaultVersion
      /\ NoCallInFlight

\* every consumer holds the engine's current version of each policy it
\* subscribes to
ConsumersCurrent ==
    \A w \in Range(workflows), p \in DOMAIN states :
      Subscribed(w, p) =>
        /\ p \in DOMAIN store[w]
        /\ store[w][p].version = get_policy(p).version

\* C2: once all apply_change calls have returned, every subscribed consumer
\* holds the version get_policy returns, never an older one.
C2_BroadcastEventuallyConsistent == NoCallInFlight => ConsumersCurrent

\* C3: register_workflow delivers the current version of every matching policy
\* before it returns, and after register_workflow and apply_change calls that
\* ran concurrently have all returned the consumer holds the current version of
\* every matching policy.
C3_NoLostUpdateOnJoin ==
    /\ \A t \in CallerThreads :
         (pc[t] = "idle" /\ result[t].kind = "registered" /\ NoCallInFlight
            /\ reg[t].workflow_id \in Range(workflows)) =>
           \A p \in DOMAIN states :
             Subscribed(reg[t].workflow_id, p) => p \in DOMAIN store[reg[t].workflow_id]
    /\ NoCallInFlight => ConsumersCurrent

\* the consumers _broadcast_policy must reach: those of the registry, as copied
\* under the workflow lock, that subscribe to everything or to this policy id
Targets(t) ==
    {w \in Range(bc[t]) : bc_subs[t][w] = {} \/ change[t].policy_id \in bc_subs[t][w]}

\* C4: an apply_change that returns changed=true has invoked the update hook on
\* exactly the registered consumers whose subscription is empty or contains
\* the policy id, and affected_workflows is exactly the set of their ids.
C4_BroadcastTargets ==
    \A t \in Threads :
      /\ pc[t] = "deliver" => hooked[t] \subseteq Targets(t)
      /\ (result[t].kind = "result" /\ result[t].changed) =>
           /\ hooked[t] = Targets(t)
           /\ Range(result[t].affected_workflows) = Targets(t)
           /\ Len(result[t].affected_workflows) = Cardinality(Targets(t))
           /\ \A w \in Targets(t) : store[w][change[t].policy_id].policy_id = change[t].policy_id

C4_Witness ==
    \E t \in Threads :
      /\ result[t].kind = "result" /\ result[t].changed
      /\ Targets(t) # {}
      /\ Targets(t) # Range(bc[t])

\* C5: when the translator fails in apply_change, the failure reaches the
\* caller, the state map is exactly as before the call and no consumer hook
\* has been invoked.
C5_TranslationFailureIsolated ==
    [][\A t \in Threads :
         (pc[t] = "commit" /\ result'[t].kind = "TranslationError") =>
           /\ states' = states
           /\ states_keys' = states_keys
           /\ store' = store
           /\ hooked'[t] = {}
           /\ pc'[t] \in {"idle", "loop_wait"}]_vars

C5_Witness ==
    \E t \in Threads :
      /\ result[t].kind = "TranslationError"
      /\ change[t].policy_id \in DOMAIN states
      /\ \E p \in DOMAIN states : p # change[t].policy_id

\* C8 as claimed: two changes with the same raw text for one policy id never
\* both return changed=true, whatever was applied in between.
C8_NeverTwoChangedForSameText ==
    \A p \in PolicyIds :
      LET h == PolicyHist(p) IN
      \A i, j \in 1..Len(h) :
        (i < j /\ h[i].raw_text = h[j].raw_text) => ~(h[i].changed /\ h[j].changed)

\* C8 amended: two changes with the same raw text for one policy id both
\* return changed=true only if a change with another raw text was recorded for
\* that policy id between them.
C8_DedupAgainstCurrentEntry ==
    \A p \in PolicyIds :
      LET h == PolicyHist(p) IN
      \A i, j \in 1..Len(h) :
        (i < j /\ h[i].raw_text = h[j].raw_text /\ h[i].changed /\ h[j].changed) =>
          \E k \in (i + 1)..(j - 1) : h[k].changed /\ h[k].raw_text # h[i].raw_text

C8_Witness ==
    \E p \in PolicyIds :
      LET h == PolicyHist(p) IN
      /\ Len(h) = 3
      /\ h[1].raw_text = h[3].raw_text /\ h[2].raw_text # h[1].raw_text
      /\ h[1].changed /\ h[2].changed /\ h[3].changed

\* C6: when one change fetched by sync_once fails translation, every other
\* change fetched by that sync_once is still applied: no sync_once ends with a
\* fetched change it never passed to apply_change.
C6_SyncBatchIsolation == dropped = <<>>

\* C7: a loop thread whose iteration raised keeps running as long as stop() has
\* not been called: it is neither ended by the exception nor finished.
C7_LoopsSurviveFailure ==
    /\ \A m \in LoopThreads : (loop_exc[m] /\ ~stop_event) => is_alive(m)
    /\ \A d \in DetectorThreads : (det_exc[d] /\ ~det_stop_event) => det_is_alive(d)

\* v is a three-part dotted string of decimal integers
IsDottedTriple(v) ==
    LET parts == split(v) IN
    /\ Len(parts) = 3
    /\ \A i \in 1..3 : Len(parts[i]) > 0 /\ \A k \in 1..Len(parts[i]) : parts[i][k] \in AsciiDigits

\* the three integers of a dotted triple
Triple(v) == LET parts == split(v) IN <<int(parts[1]), int(parts[2]), int(parts[3])>>

\* v is a strictly greater version than u
VersionGreater(v, u) ==
    LET a == Triple(v) b == Triple(u) IN
    \/ a[1] > b[1]
    \/ a[1] = b[1] /\ a[2] > b[2]
    \/ a[1] = b[1] /\ a[2] = b[2] /\ a[3] > b[3]

\* the number of content changes among the first i outcomes of h
RECURSIVE NumChanged(_, _)
NumChanged(h, i) ==
    IF i = 0 THEN 0 ELSE NumChanged(h, i - 1) + (IF h[i].changed THEN 1 ELSE 0)

\* C9: as long as no change for the policy id carried a version hint, the k-th
\* content change stores version 1.0.(k-1): the patch grows by exactly one with
\* each content change, major and minor stay, and a no-op changes nothing.
C9_PatchVersioning ==
    \A p \in PolicyIds :
      LET h == PolicyHist(p) IN
      \A i \in 1..Len(h) :
        (\A j \in 1..i : ~Truthy(h[j].version_hint)) =>
          /\ h[i].version = <<"1", ".", "0", ".">> \o str(NumChanged(h, i) - 1)
          /\ (i > 1 /\ h[i].changed) =>
               /\ Triple(h[i].version)[3] = Triple(h[i - 1].version)[3] + 1
               /\ Triple(h[i].version)[2] = Triple(h[i - 1].version)[2]
               /\ Triple(h[i].version)[1] = Triple(h[i - 1].version)[1]
          /\ (i > 1 /\ ~h[i].changed) => h[i].version = h[i - 1].version

C9_Witness ==
    LET h == PolicyHist("X") IN
    /\ Len(h) = 3
    /\ \A j \in 1..3 : ~Truthy(h[j].version_hint) /\ h[j].changed
    /\ get_policy("X").version = <<"1", ".", "0", ".", "2">>

\* C10 as claimed: with or without hints, every stored version is a three-part
\* dotted integer string and each content change stores a version strictly
\* greater than the one stored before.
C10_VersionsAlwaysGrow ==
    \A p \in PolicyIds :
      LET h == PolicyHist(p) IN
      \A i \in 1..Len(h) :
        /\ IsDottedTriple(h[i].version)
        /\ (i > 1 /\ h[i].changed /\ IsDottedTriple(h[i - 1].version)) =>
             VersionGreater(h[i].version, h[i - 1].version)

\* C10 amended: a content change without a version hint stores a three-part
\* dotted integer string, strictly greater than the version stored before
\* whenever that one is a three-part dotted integer string too.
C10_UnhintedVersionsGrow ==
    \A p \in PolicyIds :
      LET h == PolicyHist(p) IN
      \A i \in 1..Len(h) :
        (h[i].changed /\ ~Truthy(h[i].version_hint)) =>
          /\ IsDottedTriple(h[i].version)
          /\ (i > 1 /\ IsDottedTriple(h[i - 1].version)) =>
               VersionGreater(h[i].version, h[i - 1].version)

C10_Witness ==
    LET h == PolicyHist("X") IN
    /\ Len(h) = 2
    /\ h[1].version_hint = <<"1", ".", "0", ".", "9">>
    /\ h[2].changed /\ h[2].version_hint = NoHint
    /\ get_policy("X").version = <<"1", ".", "0", ".", "1", "0">>

\* C11: the version a content change stores is the version hint of the change
\* when it carries one; otherwise the version of the previous entry with the
\* patch incremented; otherwise, for a policy id without a previous entry,
\* exactly 1.0.0, whatever version the translator put on what it returned.
C11_VersionAssignment ==
    \A p \in PolicyIds :
      LET h == PolicyHist(p) IN
      \A i \in 1..Len(h) :
        h[i].changed =>
          h[i].version = IF Truthy(h[i].version_hint) THEN h[i].version_hint
                         ELSE IF i > 1 THEN _increment_patch_version(h[i - 1].version)
                         ELSE DefaultVersion

\* C12: a change whose policy id has an entry with the same fingerprint has no
\* effect: the call that finds it does not invoke the translator, invokes no
\* consumer hook, leaves every state entry (policy, version, source,
\* updated_at, raw_text) and every consumer store as they are, and returns
\* changed=false with no affected workflows.
C12_NoopHasNoEffects ==
    [][\A t \in Threads :
         (pc[t] = "commit" /\ SameFingerprint(change[t]) /\ pc'[t] # "commit") =>
           /\ ~translated'[t]
           /\ hooked'[t] = {}
           /\ store' = store
           /\ states' = states /\ states_keys' = states_keys
           /\ result'[t].kind = "result"
           /\ ~result'[t].changed
           /\ result'[t].affected_workflows = <<>>]_vars

C12_Witness ==
    \E t \in CallerThreads :
      /\ pc[t] = "idle"
      /\ result[t].kind = "result"
      /\ ~result[t].changed
      /\ ~translated[t]
      /\ change[t].policy_id \in DOMAIN states
      /\ workflows # <<>>
      /\ \E w \in Range(workflows) : change[t].policy_id \in DOMAIN store[w]

(***************************************************************************)
(* Properties of the enforcement layer                                     *)
(***************************************************************************)
\* the context monitor_action evaluates with
EvalContext(agent_id) == [k \in {agent_id_key} |-> StrValue(agent_id)]

\* the policy is active for the state: no "ignore" exception applies and every
\* condition is satisfied (a condition that cannot be evaluated is not)
IsActive(pol, state, context) ==
    /\ IgnoringExceptions(pol, state, context) = {}
    /\ \A i \in 1..Len(pol.conditions) :
         _evaluate_condition(pol.conditions[i], state) = PyTrue

\* the policies of engine g that are active for its last request, by position
ActivePositions(g) ==
    {i \in 1..Len(policies[g]) :
       IsActive(policies[g][i], response[g].request, EvalContext(response[g].agent_id))}

\* the number of conditions of the policy that the state satisfies
Satisfied(pol, state) ==
    Cardinality({i \in 1..Len(pol.conditions) :
                   _evaluate_condition(pol.conditions[i], state) = PyTrue})

\* at least one but not all conditions satisfied, and at least three quarters
NearMiss(pol, state) ==
    /\ Satisfied(pol, state) >= 1
    /\ Satisfied(pol, state) < Len(pol.conditions)
    /\ 4 * Satisfied(pol, state) >= 3 * Len(pol.conditions)

\* the policies of engine g that are near-misses for its last request
NearMissPositions(g) ==
    {i \in 1..Len(policies[g]) : NearMiss(policies[g][i], response[g].request)}

\* the policy ids at the positions, in list order
IdsAt(g, positions) ==
    LET at == SelectSeq([i \in 1..Len(policies[g]) |-> i], LAMBDA i : i \in positions) IN
    [k \in 1..Len(at) |-> policies[g][at[k]].policy_id]

\* two outcomes of monitor_action carry the same decision
SameDecision(o1, o2) ==
    /\ o1.kind = o2.kind
    /\ o1.kind = "GuardrailResponse" =>
         /\ o1.action = o2.action
         /\ o1.applied_policies = o2.applied_policies
         /\ o1.target_route = o2.target_route

\* C13: monitor_action changes neither the policy list nor the routing table,
\* and a call that repeats the agent and action of the previous call on the
\* same engine, with no apply_policy_update in between, ends as that call did:
\* same action, same applied_policies, same target_route.
C13_MonitorDeterministic ==
    [][monitors' # monitors =>
         /\ policies' = policies
         /\ routing_table' = routing_table
         /\ \A g \in Engines :
              (/\ response[g].kind = "called"
               /\ response'[g].kind = "called"
               /\ response'[g].agent_id = response[g].agent_id
               /\ response'[g].request = response[g].request) =>
                SameDecision(response[g].outcome, response'[g].outcome)]_vars

C13_Witness ==
    /\ response["g1"].kind = "called"
    /\ response["g1"].repeats = 2
    /\ response["g1"].outcome.kind = "GuardrailResponse"
    /\ response["g1"].outcome.action = "reroute"
    /\ response["g1"].outcome.timestamp = 2

\* C14: two engines that received the same policies, in whatever order, answer
\* the same agent and action with the same action and the same target_route.
C14_OrderIndependent ==
    (/\ response["g1"].kind = "called"
     /\ response["g2"].kind = "called"
     /\ response["g1"].agent_id = response["g2"].agent_id
     /\ response["g1"].request = response["g2"].request
     /\ Range(policies["g1"]) = Range(policies["g2"])) =>
      /\ response["g1"].outcome.kind = response["g2"].outcome.kind
      /\ response["g1"].outcome.kind = "GuardrailResponse" =>
           /\ response["g1"].outcome.action = response["g2"].outcome.action
           /\ response["g1"].outcome.target_route = response["g2"].outcome.target_route

\* the single policy of engine g that is active for its last request
TheActive(g) == policies[g][CHOOSE i \in ActivePositions(g) : TRUE]

\* C15: when exactly one policy is active for the action, monitor_action
\* returns a response that names that policy in applied_policies and whose
\* action is escalate if the policy's domain is security or legal; else
\* reroute, with the policy's routing hint as target_route, if a hint exists;
\* else correct if the policy declares a suggest_correction trigger; else (no
\* result has is_allowed = false) correct with the compliance-review fallback.
C15_SinglePolicyOrder ==
    (response["g1"].kind = "called" /\ Cardinality(ActivePositions("g1")) = 1) =>
      LET pol == TheActive("g1")
          o == response["g1"].outcome
      IN /\ o.kind = "GuardrailResponse"
         /\ o.applied_policies = <<pol.policy_id>>
         /\ IF pol.domain \in {"security", "legal"}
            THEN o.action = "escalate"
            ELSE IF pol.policy_id \in DOMAIN routing_table["g1"]
            THEN o.action = "reroute" /\ o.target_route = routing_table["g1"][pol.policy_id]
            ELSE IF CorrectionTriggers(pol) # {}
            THEN o.action = "correct" /\ o.suggested_correction # "review_required"
            ELSE o.action = "correct" /\ o.suggested_correction = "review_required"

\* the active policies of engine g that carry instructions: the restrictive ones
RestrictivePositions(g) ==
    {i \in ActivePositions(g) : policies[g][i].instructions # <<>>}

\* C16: when more than one policy is active and restrictive for the action,
\* monitor_action returns escalate, the reason names a domain of highest
\* precedence among those policies (security, legal, finance, governance,
\* cooperation, then the others), and applied_policies lists exactly those
\* policies, by non-increasing precedence.
C16_ConflictResolution ==
    (response["g1"].kind = "called" /\ Cardinality(RestrictivePositions("g1")) > 1) =>
      LET o == response["g1"].outcome
          conflicting == {policies["g1"][i] : i \in RestrictivePositions("g1")}
      IN /\ o.kind = "GuardrailResponse"
         /\ o.action = "escalate"
         /\ \E p \in conflicting :
              /\ o.reason.domain = p.domain
              /\ \A q \in conflicting : domain_priority(p.domain) <= domain_priority(q.domain)
         /\ Range(o.applied_policies) = {p.policy_id : p \in conflicting}
         /\ Len(o.applied_policies) = Cardinality(conflicting)
         /\ \A i, j \in 1..Len(o.applied_policies) :
              i < j => domain_priority(PolicyOf(policies["g1"], o.applied_policies[i]).domain)
                        <= domain_priority(PolicyOf(policies["g1"], o.applied_policies[j]).domain)

\* C17: a policy is a near-miss iff at least one but not all of its conditions
\* are satisfied and at least three quarters are, so never with fewer than
\* four conditions; when a near-miss exists and no policy is active,
\* monitor_action returns correct and applied_policies are the near-miss
\* policy ids; when some policy is active the response does not come from the
\* near-misses.
C17_NearMiss ==
    response["g1"].kind = "called" =>
      LET o == response["g1"].outcome IN
      /\ \A i \in NearMissPositions("g1") : Len(policies["g1"][i].conditions) >= 4
      /\ (NearMissPositions("g1") # {} /\ ActivePositions("g1") = {}) =>
           /\ o.kind = "GuardrailResponse"
           /\ o.action = "correct"
           /\ o.applied_policies = IdsAt("g1", NearMissPositions("g1"))
      /\ (NearMissPositions("g1") # {} /\ ActivePositions("g1") # {}) =>
           /\ o.kind = "GuardrailResponse"
           /\ o.suggested_correction # "warning"

\* C18: monitor_action returns allow iff no installed policy is active for the
\* action and none is a near-miss.
C18_AllowIffNothingMatches ==
    response["g1"].kind = "called" =>
      ((/\ response["g1"].outcome.kind = "GuardrailResponse"
        /\ response["g1"].outcome.action = "allow")
       <=> (ActivePositions("g1") = {} /\ NearMissPositions("g1") = {}))

\* the condition cannot be evaluated on the state: its parameter is missing,
\* its comparison is between values that do not compare, or its pattern does
\* not compile
Faulty(condition, state) ==
    \/ condition.parameter \notin DOMAIN state
    \/ /\ condition.operator \in {">", "<", ">=", "<="}
       /\ ~Orderable(state[condition.parameter], condition.value)
    \/ /\ condition.operator = "contains"
       /\ ~(state[condition.parameter].type = "str" /\ condition.value.type = "str")
    \/ /\ condition.operator = "matches"
       /\ ~re_compiles(py_str(condition.value))

\* C19: a condition whose parameter is missing from the state, whose
\* comparison is type-incompatible or whose pattern does not compile
\* evaluates to false, and evaluate returns a result for every policy.
C19_FaultsNeverEscape ==
    evaluated.kind = "called" =>
      /\ evaluated.outcome.kind = "returned"
      /\ \A i \in 1..Len(enforcer) : \A j \in 1..Len(enforcer[i].conditions) :
           Faulty(enforcer[i].conditions[j], evaluated.state) =>
             _evaluate_condition(enforcer[i].conditions[j], evaluated.state) = PyFalse

\* C20: evaluate returns one result per policy; for a policy that no "ignore"
\* exception waives, the result has status active iff every condition is true
\* on the state (always, with no conditions); an active result carries the
\* policy's on_activation triggers, in declaration order, and its
\* instructions; an inactive one carries neither; is_allowed is true.
C20_ActivationSemantics ==
    evaluated.kind = "called" =>
      /\ evaluated.outcome.kind = "returned"
      /\ \A i \in 1..Len(enforcer) :
           LET pol == enforcer[i]
               res == evaluated.outcome.results[i]
               all_true == \A j \in 1..Len(pol.conditions) :
                             _evaluate_condition(pol.conditions[j], evaluated.state) = PyTrue
           IN IgnoringExceptions(pol, evaluated.state, evaluated.context) = {} =>
                /\ res.is_allowed
                /\ Get(res.metadata, "status") = (IF all_true THEN "active" ELSE "inactive")
                /\ all_true =>
                     /\ res.triggered_actions =
                          SelectSeq(pol.triggers, LAMBDA t : t.trigger_type = "on_activation")
                     /\ res.instructions = pol.instructions
                /\ ~all_true =>
                     /\ res.triggered_actions = <<>>
                     /\ res.instructions = <<>>

\* the exceptions of the policy that match the context, by position
Matching(pol, state, context) ==
    {i \in 1..Len(pol.exceptions) : _matches_exception(pol.exceptions[i], state, context)}

\* the first exception, in declaration order, that matches and says "ignore"
FirstIgnore(pol, state, context) ==
    CHOOSE i \in Matching(pol, state, context) :
      /\ pol.exceptions[i].override_action = "ignore"
      /\ \A j \in Matching(pol, state, context) :
           pol.exceptions[j].override_action = "ignore" => i <= j

\* the policy is waived: some matching exception says "ignore"
Waives(pol, state, context) ==
    \E i \in Matching(pol, state, context) : pol.exceptions[i].override_action = "ignore"

\* C21: exceptions come before conditions. A policy with a matching "ignore"
\* exception never makes evaluate raise, whatever its conditions are, and its
\* result names the first such exception, is allowed, and carries no status, no
\* triggered actions and no instructions; matching log_only exceptions leave
\* the result to the conditions alone; with an empty context nothing matches.
C21_ExceptionShortCircuit ==
    evaluated.kind = "called" =>
      LET state == evaluated.state
          context == evaluated.context
          raises(pol) == /\ ~Waives(pol, state, context)
                         /\ \E j \in 1..Len(pol.conditions) :
                              _evaluate_condition(pol.conditions[j], state) = ReError
      IN /\ (evaluated.outcome.kind = "raised") <=>
              (\E i \in 1..Len(enforcer) : raises(enforcer[i]))
         /\ DOMAIN context = {} =>
              \A i \in 1..Len(enforcer) : Matching(enforcer[i], state, context) = {}
         /\ evaluated.outcome.kind = "returned" =>
              \A i \in 1..Len(enforcer) :
                LET pol == enforcer[i]
                    res == evaluated.outcome.results[i]
                IN IF Waives(pol, state, context)
                   THEN /\ res.is_allowed
                        /\ DOMAIN res.metadata = {"exception_applied"}
                        /\ res.metadata.exception_applied =
                             pol.exceptions[FirstIgnore(pol, state, context)].condition
                        /\ res.triggered_actions = <<>>
                        /\ res.instructions = <<>>
                   ELSE /\ DOMAIN res.metadata = {"status"}
                        /\ res.metadata.status = "active" <=>
                             \A j \in 1..Len(pol.conditions) :
                               _evaluate_condition(pol.conditions[j], state) = PyTrue

\* a waived policy whose pattern does not compile got its result, and so did a
\* policy with a matching log_only exception whose conditions hold
C21_Witness ==
    /\ evaluated.kind = "called"
    /\ evaluated.outcome.kind = "returned"
    /\ Len(enforcer) = 2
    /\ enforcer[1] = WaivedPattern
    /\ "b" \in DOMAIN evaluated.state
    /\ "exception_applied" \in DOMAIN evaluated.outcome.results[1].metadata
    /\ enforcer[2] = Matcher
    /\ Matching(Matcher, evaluated.state, evaluated.context) # {}
    /\ Get(evaluated.outcome.results[2].metadata, "status") = "active"

(***************************************************************************)
(* Conflict detector properties                                            *)
(***************************************************************************)
\* the condition holds of the number x / 2 (values are doubled so that the
\* points between two integers can be tested); an operator without an
\* interval, and !=, hold of every number
HoldsAt(condition, x) ==
    LET v == 2 * float(condition.value) IN
    CASE condition.operator = ">" -> x > v
      [] condition.operator = ">=" -> x >= v
      [] condition.operator = "<" -> x < v
      [] condition.operator = "<=" -> x <= v
      [] condition.operator = "==" -> x = v
      [] OTHER -> TRUE

\* the end points of the two intervals and the points next to them
TestPoints(left, right) ==
    {2 * float(c.value) + e : c \in {left, right}, e \in {-1, 0, 1}}

\* the intervals of the two conditions have an empty intersection
DisjointIntervals(left, right) ==
    ~\E x \in TestPoints(left, right) : HoldsAt(left, x) /\ HoldsAt(right, x)

\* the contradiction rule of the specification on a pair of conditions
Contradictory(left, right) ==
    \/ left.operator = "==" /\ right.operator = "==" /\ left.value # right.value
    \/ /\ {left.operator, right.operator} = {"==", "!="}
       /\ left.value = right.value
    \/ /\ _is_numeric(left.value) /\ _is_numeric(right.value)
       /\ DisjointIntervals(left, right)

\* the analysis of detector d flagged its first two policies as conflict_type
Flagged(d, conflict_type) ==
    \E k \in 1..Len(compared[d].conflicts) :
      /\ compared[d].conflicts[k].conflict_type = conflict_type
      /\ compared[d].conflicts[k].policy_ids =
           <<compared[d].listed[1].policy_id, compared[d].listed[2].policy_id>>

\* C22: two policies are flagged contradictory iff they have a pair of
\* conditions on the same parameter that are both == with different values,
\* or == and != with the same value, or both numeric with intervals (> and <
\* open, >= and <= closed, == a point, != the full range) that do not intersect.
C22_ContradictionRule ==
    compared["d1"].kind = "scanned" =>
      LET left == compared["d1"].listed[1]
          right == compared["d1"].listed[2]
      IN Flagged("d1", "contradictory_rule") <=>
           \E i \in 1..Len(left.conditions), j \in 1..Len(right.conditions) :
             /\ left.conditions[i].parameter = right.conditions[j].parameter
             /\ Contradictory(left.conditions[i], right.conditions[j])

\* the unordered pairs of policy ids that detector d reported, with the kind
\* of conflict
ConflictingPairs(d) ==
    {[policy_ids |-> {compared[d].conflicts[k].policy_ids[1],
                      compared[d].conflicts[k].policy_ids[2]},
      conflict_type |-> compared[d].conflicts[k].conflict_type] :
       k \in 1..Len(compared[d].conflicts)}

\* C23: a pair of policies is flagged contradictory (overlapping) in one order
\* iff it is in the other, so two scans over the same policies listed in
\* different orders find the same set of unordered conflicting pairs.
C23_ConflictSymmetry ==
    (/\ compared["d1"].kind = "scanned"
     /\ compared["d2"].kind = "scanned"
     /\ Range(compared["d1"].listed) = Range(compared["d2"].listed))
    => ConflictingPairs("d1") = ConflictingPairs("d2")

\* the policy declares a compliance framework
Declares(pol) == pol.compliance_type \notin {None, ""}

\* the severity of a conflict between two policies by the first rule that
\* matches either of them
FirstMatch(pair) ==
    IF \E pol \in pair : pol.domain = "security" THEN "safety_critical"
    ELSE IF \E pol \in pair : pol.domain = "legal" \/ Declares(pol)
    THEN "legal_compliance"
    ELSE IF \E pol \in pair : pol.domain = "finance" THEN "high"
    ELSE "medium"

\* the two policies of a conflict that detector d reported
Parties(d, conflict) ==
    {pol \in Range(compared[d].listed) :
       pol.policy_id \in {conflict.policy_ids[1], conflict.policy_ids[2]}}

\* C24: a conflict is safety_critical if either policy is of the security
\* domain; otherwise legal_compliance if either is of the legal domain or
\* declares a compliance framework; otherwise high if either is of the finance
\* domain; otherwise medium; whichever of the two policies is left or right.
C24_SeverityFirstMatch ==
    compared["d1"].kind = "scanned" =>
      \A k \in 1..Len(compared["d1"].conflicts) :
        compared["d1"].conflicts[k].severity =
          FirstMatch(Parties("d1", compared["d1"].conflicts[k]))

\* a legal, compliance-tagged policy against a security one was classified
\* safety_critical
C24_Witness ==
    /\ compared["d1"].kind = "scanned"
    /\ compared["d1"].listed = <<LeftOf("legal", "SOX"), RightOf("security", None)>>
    /\ Len(compared["d1"].conflicts) = 1
    /\ compared["d1"].conflicts[1].severity = "safety_critical"

\* the sequence old is the beginning of the sequence new
StartsWith(new, old) ==
    Len(old) <= Len(new) /\ SubSeq(new, 1, Len(old)) = old

\* the conflicts are in the order of their severity rank, then of their
\* detection time
Ordered(conflicts) ==
    \A i, j \in 1..Len(conflicts) :
      i < j => \/ _SEVERITY_PRIORITY(conflicts[i].severity)
                    < _SEVERITY_PRIORITY(conflicts[j].severity)
               \/ /\ conflicts[i].severity = conflicts[j].severity
                  /\ conflicts[i].detected_at <= conflicts[j].detected_at

\* the number of positions of the sequence that hold the element
Occurrences(seq, e) == Cardinality({i \in 1..Len(seq) : seq[i] = e})

\* scan t extends the audit log in this step
Appends(t) == scan[t].pc = "append" /\ scan'[t].pc # "append"

\* scan t returns in this step
Returns(t) == scan[t].pc # "returned" /\ scan'[t].pc = "returned"

\* C25: the audit log and the audit file only grow at their end, whatever the
\* interleaving of the scans; a scan appends to the log exactly the conflicts
\* it returns, in the order in which it returns them (severity rank, then
\* detection time); and when it returns each of them is one line of the file.
C25_AuditAppendOnly ==
    [][/\ StartsWith(audit_log', audit_log)
       /\ StartsWith(audit_file', audit_file)
       /\ \A t \in Scanners :
            Appends(t) => audit_log' = audit_log \o scan[t].conflicts
       /\ audit_log' # audit_log => \E t \in Scanners : Appends(t)
       /\ \A t \in Scanners :
            Returns(t) =>
              /\ scan'[t].conflicts = scan[t].conflicts
              /\ Ordered(scan'[t].conflicts)
              /\ \A k \in 1..Len(scan'[t].conflicts) :
                   /\ Occurrences(audit_log', scan'[t].conflicts[k]) = 1
                   /\ Occurrences(audit_file', scan'[t].conflicts[k]) = 1
       /\ Len(audit_file') <= Len(audit_file) + 1]_vars

\* two scans have returned, the second after the first had extended the log;
\* one of them returned three conflicts in an order that is not the order of
\* their detection, and every record of the log is a line of the file
C25_Witness ==
    /\ \A t \in Scanners : scan[t].pc = "returned"
    /\ \E t \in Scanners :
         /\ Len(scan[t].conflicts) = 3
         /\ scan[t].conflicts[1].detected_at > scan[t].conflicts[3].detected_at
         /\ SubSeq(audit_log, Len(audit_log) - 2, Len(audit_log)) = scan[t].conflicts
    /\ Len(audit_log) > 3
    /\ Len(audit_file) = Len(audit_log)
    /\ audit_file # audit_log

\* the last n records of the log, all of them when there are fewer
MostRecent(log, n) ==
    IF n >= Len(log) THEN log ELSE SubSeq(log, Len(log) - n + 1, Len(log))

\* C26: get_audit_log(limit) returns at most limit records, the most recently
\* appended ones in log order, for every limit >= 0 (none for limit 0);
\* without a limit it returns the whole log.
C26_RetrievalLimit ==
    fetched.kind = "called" =>
      IF fetched.limit.type = "NoneType" THEN fetched.result = fetched.log
      ELSE /\ Len(fetched.result) <= fetched.limit.n
           /\ fetched.result = MostRecent(fetched.log, fetched.limit.n)

(***************************************************************************)
(* Guardrail engine: the policy list and the routing table                 *)
(***************************************************************************)
\* the policy ids of a policy list
PolicyIdsOf(pols) == {pols[i].policy_id : i \in 1..Len(pols)}

\* C27: the guardrail policy list holds one policy per policy_id; an
\* apply_policy_update(p) puts p at the position where its policy_id was first
\* inserted (at the end for a new policy_id), leaves the entries of all other
\* policy_ids where and as they were, and installs p whatever its conditions;
\* nothing else changes the list. So after any sequence of updates the list
\* holds, per policy_id ever applied, the policy applied last.
C27_GuardrailUpsert ==
    [][\A g \in Engines :
         IF updates'[g] = updates[g] + 1
         THEN LET p == response'[g].policy
                  old == policies[g]
                  new == policies'[g]
              IN /\ response'[g].kind = "updated"
                 /\ \A i, j \in 1..Len(new) :
                      new[i].policy_id = new[j].policy_id => i = j
                 /\ PolicyIdsOf(new) = PolicyIdsOf(old) \cup {p.policy_id}
                 /\ Len(new) >= Len(old)
                 /\ \A i \in 1..Len(new) :
                      IF new[i].policy_id = p.policy_id THEN new[i] = p
                      ELSE i <= Len(old) /\ new[i] = old[i]
                 /\ \A i \in 1..Len(old) : new[i].policy_id = old[i].policy_id
         ELSE policies'[g] = policies[g]]_vars

\* after P1, P2 and P1 again were applied, the last P1 is at the first
\* position, before a policy with the same condition list
C27_Witness ==
    /\ updates["g1"] = 3
    /\ response["g1"] = Updated(SpendingLimit)
    /\ policies["g1"] = <<SpendingLimit, CriticalData>>
    /\ SpendingLimit.conditions = CriticalData.conditions

\* the triggers of the policy that ask for a reroute to a target workflow
RerouteTriggers(pol) ==
    {i \in 1..Len(pol.triggers) :
       /\ pol.triggers[i].trigger_type = "on_violation"
       /\ IsSubstring(reroute, lower(pol.triggers[i].action_name))
       /\ "target_workflow" \in DOMAIN pol.triggers[i].parameters
       /\ pol.triggers[i].parameters["target_workflow"] \notin {None, ""}}

\* C28: after apply_policy_update(p) the routing table maps p.policy_id to a
\* target iff p itself has an on_violation trigger whose action name implies
\* rerouting and that carries a target_workflow, and the target is that
\* parameter.
C28_RoutingHintsRederived ==
    \A g \in Engines :
      response[g].kind = "updated" =>
        LET p == response[g].policy IN
        /\ p.policy_id \in DOMAIN routing_table[g] <=> RerouteTriggers(p) # {}
        /\ p.policy_id \in DOMAIN routing_table[g] =>
             \E i \in RerouteTriggers(p) :
               routing_table[g][p.policy_id] = p.triggers[i].parameters["target_workflow"]

(***************************************************************************)
(* Background loops: shutdown                                              *)
(***************************************************************************)
\* this step belongs to a stop() call: the event is set, or join returns
StopStep ==
    \E t \in CallerThreads :
      \/ pc[t] = "idle" /\ pc'[t] \in {"stop_join", "det_stop_join"}
      \/ pc[t] \in {"stop_join", "det_stop_join"} /\ pc'[t] = "idle"

\* the loop thread is inside sync_once (scan_once)
InIteration(m) == is_alive(m) /\ pc[m] \notin {"loop_check", "loop_wait"}
DetInIteration(d) == det_pc[d] = "scanning"

\* C29: a stop() call on the engine or on the detector never touches a loop
\* thread, so an iteration that is running goes on and comes to its end; a
\* loop enters an iteration only when it has seen the stop event unset, and
\* none once it has seen it set; and a loop thread that is alive when stop()
\* has set the stop event eventually terminates.
C29_CooperativeShutdown ==
    /\ [][/\ StopStep =>
               /\ \A m \in LoopThreads :
                    /\ pc'[m] = pc[m] /\ sync'[m] = sync[m] /\ change'[m] = change[m]
                    /\ result'[m] = result[m] /\ loop_exc'[m] = loop_exc[m]
               /\ det_pc' = det_pc /\ det_exc' = det_exc
          /\ \A m \in LoopThreads :
               /\ (~InIteration(m) /\ InIteration(m)') => ~stop_event
               /\ pc[m] = "exited" => pc'[m] = "exited"
          /\ \A d \in DetectorThreads :
               /\ (~DetInIteration(d) /\ DetInIteration(d)') => ~det_stop_event
               /\ det_pc[d] = "exited" => det_pc'[d] = "exited"]_vars
    /\ \A m \in LoopThreads :
         /\ InIteration(m) ~> ~InIteration(m)
         /\ (stop_event /\ is_alive(m)) ~> ~is_alive(m)
    /\ \A d \in DetectorThreads :
         /\ DetInIteration(d) ~> ~DetInIteration(d)
         /\ (det_stop_event /\ det_is_alive(d)) ~> ~det_is_alive(d)

(***************************************************************************)
(* Change sources: draining                                                *)
(***************************************************************************)
\* position of source s in _sources
SourceIndex(s) == CHOOSE i \in 1..Len(sources) : sources[i] = s

\* thread t passes the next change of its fetched list to apply_change
AppliesNext(t) == pc[t] = "sync_change" /\ pc'[t] = "commit"

\* the sync_once call of thread t ends, returning or raising
SyncEnds(t) == sync[t].active /\ ~sync'[t].active

\* C30: the changes fetch_changes has returned from a source, followed by the
\* changes still queued, are the pushed changes in push order, whatever the
\* interleaving of push_change and fetch_changes; a sync_once call fetches
\* from the sources in registration order and passes the fetched changes to
\* apply_change one by one in the order fetched; and it ends by returning one
\* PolicyUpdateResult for each change it fetched, in that order.
C30_SourcesDrainedOnce ==
    /\ [](\A s \in SourceIds : returned[s] \o queue[s] = pushed[s])
    /\ [](\A t \in Threads :
            \A i, j \in 1..Len(sync[t].drained) :
              i < j => SourceIndex(sync[t].drained[i].source)
                         <= SourceIndex(sync[t].drained[j].source))
    /\ [][\A t \in Threads :
            /\ AppliesNext(t) =>
                  change'[t] = sync[t].drained[Len(sync[t].results) + 1].change
            /\ SyncEnds(t) =>
                  /\ result'[t].kind = "results"
                  /\ Len(result'[t].results) = Len(sync[t].drained)
                  /\ \A k \in 1..Len(sync[t].drained) :
                       result'[t].results[k].policy_id
                         = sync[t].drained[k].change.policy_id]_vars

(***************************************************************************)
(* Conflict detector: the latest version of every policy                   *)
(***************************************************************************)
\* pols[i] is the latest listed version of its policy_id: no other version is
\* effective later, and of the versions effective at the same time it is the
\* one listed last
IsLatest(pols, i) ==
    \A j \in 1..Len(pols) :
      (j # i /\ pols[j].policy_id = pols[i].policy_id) =>
        \/ pols[j].effective_date < pols[i].effective_date
        \/ pols[j].effective_date = pols[i].effective_date /\ j < i

\* conflict c is what the analysis of pols[i] and pols[j] gives
ConflictOf(c, pols, i, j) ==
    /\ c.policy_ids = <<pols[i].policy_id, pols[j].policy_id>>
    /\ c.conflict_type = ConflictTypeOf(pols[i], pols[j])
    /\ c.evidence = DetailsOf(pols[i], pols[j])

MapAfter(passed, n) ==
    [k \in {passed[i].policy_id : i \in 1..n} |->
       passed[CHOOSE i \in 1..n :
                /\ passed[i].policy_id = k
                /\ \A j \in (i + 1)..n : passed[j].policy_id # k]]

\* the policy maps of the store after the prefixes of its updates so far
PrefixMaps(w) == {MapAfter(delivered[w], n) : n \in 0..Len(delivered[w])}

\* the policy ids of the changes pushed to the sources
PushedIds == UNION {{pushed[s][k].policy_id : k \in 1..Len(pushed[s])} : s \in SourceIds}

\* every pushed change has been applied
AllApplied == pushes > 0 /\ Len(hist) = pushes

\* C32: while the monitor loop applies changes, the snapshot an execute call
\* works on is the policy map of the store after some prefix of the updates
\* delivered so far, and so is what every call returned; the policy_count of
\* successive calls never decreases; and once every pushed change has been
\* applied, list_policies has exactly the pushed policy ids.
C32_HotSwapSnapshots ==
    /\ execution.pc = "logic" => execution.snapshot \in PrefixMaps("wf1")
    /\ \A i \in 1..Len(execution.results) :
         /\ \E snapshot \in PrefixMaps("wf1") :
              execution.results[i] = _default_logic(snapshot)
         /\ \A j \in 1..Len(execution.results) :
              i < j => execution.results[i].policy_count
                         <= execution.results[j].policy_count
    /\ AllApplied => DOMAIN list_policies = PushedIds

\* the runner saw the store empty, then with one policy while a second one
\* was already delivered, and the loop has applied both pushed changes
C32_Witness ==
    /\ Len(execution.results) = 2
    /\ execution.results[1].policy_count = 0
    /\ execution.results[2].policy_count = 1
    /\ Len(delivered["wf1"]) = 2
    /\ DOMAIN store["wf1"] = {"X", "Y"}
    /\ AllApplied
    /\ DOMAIN list_policies = {"X", "Y"}

(***************************************************************************)
(* The state map of the Live Update Engine                                 *)
(***************************************************************************)
\* the apply_change calls for policy id p that returned changed=true, in
\* state-lock order
ChangedHist(p) == SelectSeq(PolicyHist(p), LAMBDA e : e.changed)

\* C33: the keys of the state map are the policy ids some apply_change has
\* changed (an entry is never removed); the entry of key k holds a policy with
\* policy_id k and raw_source equal to the raw_text of the entry, its
\* fingerprint is the digest of that raw_text, and its text and version are
\* those of the most recent changed=true apply_change for k.
C33_StateMapEntries ==
    /\ DOMAIN states = {p \in PolicyIds : ChangedHist(p) # <<>>}
    /\ Range(states_keys) = DOMAIN states
    /\ \A k \in DOMAIN states :
         LET entry == states[k]
             last == ChangedHist(k)[Len(ChangedHist(k))]
         IN /\ entry.policy.policy_id = k
            /\ entry.policy.raw_source = entry.raw_text
            /\ entry.fingerprint = _fingerprint(entry.raw_text)
            /\ entry.raw_text = last.raw_text
            /\ entry.policy.version = last.version

\* policy X was changed twice and then applied once more without a change
C33_Witness ==
    /\ Len(ChangedHist("X")) = 2
    /\ Len(PolicyHist("X")) = 3
    /\ ~PolicyHist("X")[3].changed
    /\ states["X"].raw_text = ChangedHist("X")[2].raw_text
    /\ states["X"].raw_text # ChangedHist("X")[1].raw_text

\* the raw texts of the calls are pairwise distinct and none carries a hint
DistinctTexts(h) ==
    /\ \A i, j \in 1..Len(h) : i # j => h[i].raw_text # h[j].raw_text
    /\ \A i \in 1..Len(h) : ~Truthy(h[i].version_hint)

\* the apply_change calls of thread t that are past the state lock and have
\* not returned yet
InBroadcast(t) == pc[t] \in {"snapshot", "deliver"}

\* C35: when threads call apply_change concurrently for one policy id with
\* pairwise-distinct raw texts and no version hint, every call that leaves the
\* state lock has changed=true, the k-th of them in state-lock order stores
\* patch number k-1 of 1.0, so the stored versions are pairwise distinct and
\* consecutive, and the entry of the engine is the one the last of them wrote.
C35_NoLostIncrement ==
    \A p \in PolicyIds :
      LET h == PolicyHist(p) IN
      DistinctTexts(h) =>
        /\ \A k \in 1..Len(h) :
             /\ h[k].changed
             /\ h[k].version = FormatVersion(1, 0, k - 1)
        /\ \A i, j \in 1..Len(h) : i # j => h[i].version # h[j].version
        /\ Len(h) > 0 =>
             /\ states[p].policy.version = h[Len(h)].version
             /\ states[p].raw_text = h[Len(h)].raw_text
             /\ states[p].fingerprint = _fingerprint(h[Len(h)].raw_text)

\* two threads changed policy X with different texts and neither call has
\* returned: both are still delivering to the consumers
C35_Witness ==
    LET h == PolicyHist("X") IN
    /\ Len(h) = 2
    /\ DistinctTexts(h)
    /\ h[1].thread # h[2].thread
    /\ InBroadcast(h[1].thread)
    /\ InBroadcast(h[2].thread)
    /\ change[h[1].thread].policy_id = "X"
    /\ change[h[2].thread].policy_id = "X"

\* the broadcast of thread t invokes the update hook of consumer w in this step
BroadcastHooks(t, w) == pc[t] = "deliver" /\ w \in hooked'[t] /\ w \notin hooked[t]

\* thread t returns a changed=true result in this step
ReturnsChanged(t) == pc[t] = "deliver" /\ pc'[t] # "deliver" /\ result'[t].kind = "result"

\* C36: the broadcast of an apply_change invokes the update hook only of
\* consumers that are registered at that moment, and the affected_workflows of
\* a result hold only ids registered when the result is returned: a consumer
\* whose unregister_workflow has returned is not reached any more, also by an
\* apply_change that was in progress during the unregistration.
C36_UnregistrationFinal ==
    [][\A t \in Threads :
         /\ \A w \in WorkflowIds : BroadcastHooks(t, w) => w \in Range(workflows)
         /\ ReturnsChanged(t) =>
              Range(result'[t].affected_workflows) \subseteq Range(workflows)]_vars

\* the hook part of C36 alone
C36_NoHookAfterUnregister ==
    [][\A t \in Threads, w \in WorkflowIds :
         BroadcastHooks(t, w) => w \in Range(workflows)]_vars

\* loop thread m of the engine passes `while not self._stop_event.is_set()` and
\* enters an iteration in this step
EntersIteration(m) == pc[m] = "loop_check" /\ pc'[m] \notin {"loop_check", "exited"}

\* loop thread d of the detector enters an iteration in this step
DetEntersIteration(d) == det_pc[d] = "loop_check" /\ det_pc'[d] = "scanning"

\* C37: whatever start() and stop() calls were made, a loop thread of the
\* engine enters an iteration only while no other loop thread of the engine is
\* alive, and likewise for the detector: the loop of an earlier start() never
\* goes on iterating next to the loop of a later one.
C37_AtMostOneLoop ==
    [][/\ \A m \in LoopThreads :
            EntersIteration(m) => \A o \in LoopThreads \ {m} : ~is_alive(o)
       /\ \A d \in DetectorThreads :
            DetEntersIteration(d) => \A o \in DetectorThreads \ {d} : ~det_is_alive(o)]_vars

(***************************************************************************)
(* Guardrail layer: monitoring while policies are updated                  *)
(***************************************************************************)
\* the policy list and the routing table the first n updates leave
RECURSIVE ListAfter(_, _)
ListAfter(passed, n) ==
    IF n = 0 THEN <<>> ELSE Upsert(ListAfter(passed, n - 1), passed[n])

RECURSIVE TableAfter(_, _)
TableAfter(passed, n) ==
    IF n = 0 THEN EmptyDict
    ELSE _analyze_policy_dynamics(TableAfter(passed, n - 1), passed[n])

\* a monitor_action call is made
Monitors == monitors' = monitors + 1

\* C34: every monitor_action call made while updater threads call
\* apply_policy_update decides on the policy list and the routing table that
\* some complete prefix of the updates leaves, the prefix of the updates that
\* have returned, and its response is the one for that list and table.
C34_GuardrailAtomicView ==
    [][Monitors =>
         \E n \in 0..Len(updated["g1"]) :
           /\ n = Len(updated["g1"]) - Cardinality({u \in Updaters : applying[u].pc # "idle"})
           /\ policies["g1"] = ListAfter(updated["g1"], n)
           /\ routing_table["g1"] = TableAfter(updated["g1"], n)
           /\ response'["g1"].outcome
                = monitor_action(ListAfter(updated["g1"], n), TableAfter(updated["g1"], n),
                                 response'["g1"].agent_id, response'["g1"].request,
                                 monitors')]_vars

\* the engine was asked about an action after LegacyRouting replaced
\* SpendingLimit and answered with the reroute, and an updater is now inside
\* the next apply_policy_update with the list updated and the table not yet
C34_Witness ==
    /\ updated["g1"] = <<SpendingLimit, LegacyRouting, SpendingLimit>>
    /\ response["g1"].kind = "called"
    /\ response["g1"].outcome.action = "reroute"
    /\ \E u \in Updaters : applying[u].pc = "dynamics"


(***************************************************************************)
(* PolicyInjectedWorkflow (enforcement/workflow.py) and the decisions      *)
(***************************************************************************)
RECURSIVE Flatten(_)
\* the concatenation of the sequences of a sequence
Flatten(seqs) == IF seqs = <<>> THEN <<>> ELSE Head(seqs) \o Flatten(Tail(seqs))

\* default_agent_logic of create_enforced_agent: the instructions of all
\* results are echoed
default_agent_logic(payload, enforcement, context) ==
    [status |-> "success",
     constraints_applied |-> Flatten([i \in 1..Len(enforcement) |-> enforcement[i].instructions]),
     agent_context |-> context]

\* PolicyInjectedWorkflow.execute over the policies pols of its enforcer: the
\* denial of lines 47-53, else the result of the core logic with the
\* triggered actions of all results (lines 57-68)
execute(pols, payload, context) ==
    LET enforcement == evaluate(pols, payload, context) IN
    IF enforcement.kind = "raised" THEN enforcement
    ELSE LET denied_results == SelectSeq(enforcement.results, LAMBDA r : ~r.is_allowed)
             all_triggers ==
                 Flatten([i \in 1..Len(enforcement.results) |->
                            enforcement.results[i].triggered_actions])
         IN [kind |-> "returned",
             result |->
               IF denied_results # <<>>
               THEN [status |-> "denied",
                     violations |-> Flatten([i \in 1..Len(denied_results) |->
                                               denied_results[i].violations]),
                     policy_ids |-> [i \in 1..Len(denied_results) |->
                                       denied_results[i].policy_id]]
               ELSE default_agent_logic(payload, enforcement.results, context),
             triggered_actions |-> IF denied_results # <<>> THEN <<>> ELSE all_triggers]

\* the inputs of the decision: the state and the context of the calls to come
Given(state, context) == [kind |-> "given", state |-> state, context |-> context]

\* the policy lists the consumers have received: every sequence of at most
\* two updates
UpdateLists ==
    {<<>>} \cup {<<p>> : p \in EnforcerPolicies}
           \cup {<<p, q>> : p \in EnforcerPolicies, q \in EnforcerPolicies}

\* a guardrail engine, a stand-alone enforcer and a workflow that have
\* received the same updates, one of lists, before a call with a state and a
\* context
InitDecisionsOver(lists) ==
    /\ InitEngine
    /\ translator = DefaultVersion
    /\ InitDetector
    /\ \E passed \in lists, state \in Actions, context \in Contexts :
         /\ policies = [g \in Engines |-> IF g = "g1" THEN ListAfter(passed, Len(passed))
                                          ELSE <<>>]
         /\ routing_table = [g \in Engines |-> IF g = "g1" THEN TableAfter(passed, Len(passed))
                                               ELSE EmptyDict]
         /\ updates = [g \in Engines |-> IF g = "g1" THEN Len(passed) ELSE 0]
         /\ enforcer = ListAfter(passed, Len(passed))
         /\ evaluated = Given(state, context)
    /\ response = [g \in Engines |-> NoResponse]
    /\ monitors = 0

InitDecisions == InitDecisionsOver(UpdateLists)

\* PolicyEnforcer.evaluate on the given state and context
EvaluateGiven == Evaluate(evaluated.state, evaluated.context)

\* PolicyInjectedWorkflow.execute(payload), the whole call under the lock of
\* the workflow, on the given state and the context of the workflow
WorkflowExecute ==
    /\ evaluated' = [kind |-> "executed", state |-> evaluated.state,
                     context |-> evaluated.context,
                     outcome |-> execute(enforcer, evaluated.state, evaluated.context)]
    /\ UNCHANGED <<enforcer, live_update_vars, guardrail_vars, conflict_vars>>

\* monitor_action of an agent on the given state
MonitorGiven == \E agent \in AgentIds : MonitorAction("g1", agent, evaluated.state)

NextDecisions ==
    \/ EvaluateGiven
    \/ WorkflowExecute
    \/ MonitorGiven

SpecDecisions == InitDecisions /\ [][NextDecisions]_vars

\* C38: every EnforcementResult of evaluate has is_allowed true and no
\* violations, whether the policy is active, inactive or ignored through an
\* exception; monitor_action never returns the block action and
\* PolicyInjectedWorkflow.execute never returns the status denied.
C38_EvaluatorNeverDenies ==
    /\ (evaluated.kind = "called" /\ evaluated.outcome.kind = "returned") =>
         \A i \in 1..Len(evaluated.outcome.results) :
           /\ evaluated.outcome.results[i].is_allowed
           /\ evaluated.outcome.results[i].violations = <<>>
    /\ (evaluated.kind = "executed" /\ evaluated.outcome.kind = "returned") =>
         evaluated.outcome.result.status # "denied"
    /\ \A g \in Engines :
         (response[g].kind = "called" /\ response[g].outcome.kind = "GuardrailResponse") =>
           response[g].outcome.action # "block"

\* the workflow ran its core logic under an active policy with instructions,
\* and monitor_action went past the test of is_allowed to its last response
C38_Witness ==
    /\ evaluated.kind = "executed"
    /\ evaluated.outcome.kind = "returned"
    /\ evaluated.outcome.result.status = "success"
    /\ evaluated.outcome.result.constraints_applied # <<>>
    /\ response["g1"].kind = "called"
    /\ response["g1"].outcome.kind = "GuardrailResponse"
    /\ response["g1"].outcome.action = "correct"
    /\ response["g1"].outcome.suggested_correction = "review_required"


\* four rules with an exception that waives the policy for Bob
WaivedComplex ==
    StructuredPolicy("P2", "Waived Complex", "governance",
                     <<Gt10("a"), Gt10("b"), Gt10("c"), Gt10("d")>>, <<>>,
                     <<ExceptionHandler(agent_id_key \o <<" ", "=", "=", " ">> \o Bob,
                                        "ignore")>>,
                     <<"None">>)

WaivedPolicies == {WaivedComplex, Waived, SpendingLimit, LegacyRouting, RateLimit, LegalHold}

\* every sequence of at most two updates with the waived policies
WaivedLists ==
    {<<>>} \cup {<<p>> : p \in WaivedPolicies}
           \cup {<<p, q>> : p \in WaivedPolicies, q \in WaivedPolicies}

\* The consumers hold policies that an exception waives for one of the agents.
SpecWaived == InitDecisionsOver(WaivedLists) /\ [][NextDecisions]_vars

\* policy pol has an exception with override_action ignore that matches the
\* evaluation context monitor_action builds for the agent
IgnoredFor(pol, agent_id, action) ==
    IgnoringExceptions(pol, action, [k \in {agent_id_key} |-> StrValue(agent_id)]) # {}

\* the list without its i-th policy
Without(pols, i) == SubSeq(pols, 1, i - 1) \o SubSeq(pols, i + 1, Len(pols))

\* C39: a policy with an exception of override_action ignore that matches the
\* evaluation context has no influence on monitor_action: the response is the
\* one the engine gives with that policy removed from its list (and from its
\* routing table); the policy is not reported as a near-miss and does not
\* turn an allow into a correct.
C39_IgnoredPolicyNoInfluence ==
    [][Monitors =>
         \A i \in 1..Len(policies["g1"]) :
           IgnoredFor(policies["g1"][i], response'["g1"].agent_id, response'["g1"].request) =>
             response'["g1"].outcome
               = monitor_action(Without(policies["g1"], i),
                                DictPop(routing_table["g1"], policies["g1"][i].policy_id),
                                response'["g1"].agent_id, response'["g1"].request,
                                monitors')]_vars


(***************************************************************************)
(* The locks of the engine, the detector and a guardrail consumer          *)
(***************************************************************************)
\* `with lock:` is entered, and left
Acquire(lock) == [op |-> "acquire", lock |-> lock]
Release(lock) == [op |-> "release", lock |-> lock]

\* one `with lock:` block that calls nothing that takes a lock
Alone(lock) == <<Acquire(lock), Release(lock)>>

\* the concatenations of a path of the first set and a path of the second
Then(paths1, paths2) == {p1 \o p2 : p1 \in paths1, p2 \in paths2}

\* mutant of apply_policy_update_locks: the consumer calls back into the
\* registry of the engine while it holds its lock
apply_policy_update_locks_CallsBack ==
    {<<Acquire("guardrail"), Acquire("workflow"), Release("workflow"), Release("guardrail")>>}

\* AdaptiveGuardrailsEngine.apply_policy_update: the whole body under the
\* lock of the engine (guardrails.py lines 56-72)
apply_policy_update_locks == {Alone("guardrail")}

\* AdaptiveGuardrailsEngine.monitor_action (lines 103-135)
monitor_action_locks == {Alone("guardrail")}

\* AdaptiveGuardrailsEngine.list_active_policies (lines 232-233)
list_active_policies_locks == {Alone("guardrail")}

\* _broadcast_policy: the registry is copied under the workflow lock, then the
\* hook of each consumer is called with no lock held; the guardrail consumer
\* is registered and subscribed, or not
_broadcast_policy_locks == Then({Alone("workflow")}, {<<>>} \cup apply_policy_update_locks)

\* apply_change: the state lock around lines 117-145, released on the no-op
\* return and on an exception; then the broadcast
apply_change_locks == {Alone("state")} \cup Then({Alone("state")}, _broadcast_policy_locks)

\* register_workflow: the workflow lock is held while the hook of the consumer
\* is called for each stored policy, none, one or two of them; _states is read
\* without the state lock
register_workflow_locks ==
    Then(Then({<<Acquire("workflow")>>},
              {<<>>} \cup apply_policy_update_locks
                     \cup Then(apply_policy_update_locks, apply_policy_update_locks)),
         {<<Release("workflow")>>})

\* unregister_workflow (lines 87-89)
unregister_workflow_locks == {Alone("workflow")}

\* get_policy (lines 159-161)
get_policy_locks == {Alone("state")}

\* snapshot_workflow_policies: the workflow lock, then the state lock, then
\* list_active_policies of the guardrail consumer if it is registered
snapshot_workflow_policies_locks ==
    Then({Alone("workflow") \o Alone("state")}, {<<>>} \cup list_active_policies_locks)

\* scan_once: the repository is read, the engine is asked for its snapshot if
\* it is the workflow provider, and conflicts are appended to the audit log
\* under the lock of the detector
scan_once_locks ==
    Then({<<>>} \cup snapshot_workflow_policies_locks, {<<>>, Alone("audit")})

\* get_audit_log (lines 101-104)
get_audit_log_locks == {Alone("audit")}

\* the thread that holds the lock, or Free
Holder(lock) ==
    CASE lock = "state" -> state_lock
      [] lock = "workflow" -> workflow_lock
      [] lock = "guardrail" -> guardrail_lock["g1"]
      [] lock = "audit" -> audit_lock

\* the lock passes to holder
SetHolder(lock, holder) ==
    /\ state_lock' = IF lock = "state" THEN holder ELSE state_lock
    /\ workflow_lock' = IF lock = "workflow" THEN holder ELSE workflow_lock
    /\ guardrail_lock' = IF lock = "guardrail"
                         THEN [guardrail_lock EXCEPT !["g1"] = holder]
                         ELSE guardrail_lock
    /\ audit_lock' = IF lock = "audit" THEN holder ELSE audit_lock

\* what the calls on the locks leave alone
lock_frame == <<engine_vars, workflows, subscriptions, store, pc, apply_vars, reg, result,
                hist, source_vars, sync_vars, loop_vars, detector_vars, translator,
                delivered, execution, updated, enforcement_vars>>

\* thread u calls operation op, which will take the locks of path
LockCall(u, op, path) ==
    /\ applying[u].pc = "idle"
    /\ calls < MaxCalls
    /\ calls' = calls + 1
    /\ applying' = [applying EXCEPT ![u] = [pc |-> "call", op |-> op, path |-> path, i |-> 1]]
    /\ UNCHANGED <<lock_frame, workflow_lock, guardrail_lock, state_lock, audit_lock>>

\* the next step of the call of thread u
NextStep(u) == applying[u].path[applying[u].i]

\* thread u enters a `with lock:` block: it waits until the lock is free (no
\* path takes a lock its thread holds already)
LockAcquire(u) ==
    /\ applying[u].pc = "call"
    /\ applying[u].i <= Len(applying[u].path)
    /\ NextStep(u).op = "acquire"
    /\ Holder(NextStep(u).lock) = Free
    /\ SetHolder(NextStep(u).lock, u)
    /\ applying' = [applying EXCEPT ![u].i = @ + 1]
    /\ UNCHANGED <<lock_frame, calls>>

\* thread u leaves a `with lock:` block
LockRelease(u) ==
    /\ applying[u].pc = "call"
    /\ applying[u].i <= Len(applying[u].path)
    /\ NextStep(u).op = "release"
    /\ SetHolder(NextStep(u).lock, Free)
    /\ applying' = [applying EXCEPT ![u].i = @ + 1]
    /\ UNCHANGED <<lock_frame, calls>>

\* the call of thread u returns, or passes its exception on
LockReturn(u) ==
    /\ applying[u].pc = "call"
    /\ applying[u].i > Len(applying[u].path)
    /\ applying' = [applying EXCEPT ![u] = NoUpdate]
    /\ UNCHANGED <<lock_frame, calls, workflow_lock, guardrail_lock, state_lock, audit_lock>>

LockSteps(u) ==
    \/ LockAcquire(u)
    \/ LockRelease(u)
    \/ LockReturn(u)

\* Two threads call the operations of the engine, of the detector and of the
\* guardrail consumer in any order and at any time.
NextLocks ==
    \E u \in Updaters :
      \/ \E path \in apply_change_locks : LockCall(u, "apply_change", path)
      \/ \E path \in register_workflow_locks : LockCall(u, "register_workflow", path)
      \/ \E path \in unregister_workflow_locks : LockCall(u, "unregister_workflow", path)
      \/ \E path \in snapshot_workflow_policies_locks :
           LockCall(u, "snapshot_workflow_policies", path)
      \/ \E path \in get_policy_locks : LockCall(u, "get_policy", path)
      \/ \E path \in scan_once_locks : LockCall(u, "scan_once", path)
      \/ \E path \in get_audit_log_locks : LockCall(u, "get_audit_log", path)
      \/ \E path \in apply_policy_update_locks : LockCall(u, "apply_policy_update", path)
      \/ \E path \in monitor_action_locks : LockCall(u, "monitor_action", path)
      \/ \E path \in list_active_policies_locks : LockCall(u, "list_active_policies", path)
      \/ LockSteps(u)

SpecLocks == Init /\ [][NextLocks]_vars

\* every thread that can take a step is scheduled in the end
LockFairness == \A u \in Updaters : WF_vars(LockSteps(u))

SpecLocksFair == SpecLocks /\ LockFairness

\* thread u is inside a call
InCall(u) == applying[u].pc = "call"

\* thread u waits for a lock that thread v holds
WaitsFor(u, v) ==
    /\ InCall(u)
    /\ applying[u].i <= Len(applying[u].path)
    /\ NextStep(u).op = "acquire"
    /\ Holder(NextStep(u).lock) = v

\* C40: whatever the interleaving of apply_change, register_workflow,
\* unregister_workflow, snapshot_workflow_policies, get_policy, scan_once,
\* get_audit_log and the apply_policy_update, monitor_action and
\* list_active_policies of a guardrail consumer, every call returns in the
\* end: no thread waits for ever for the state lock, the workflow lock, the
\* guardrail lock or the detector lock.
C40_DeadlockFreedom == \A u \in Updaters : InCall(u) ~> ~InCall(u)

\* no two threads wait for each other, and a thread inside a call is either
\* able to step or waits for a thread that is able to step
C40_NoWaitCycle ==
    \A u \in Updaters :
      InCall(u) =>
        \/ \A v \in Updaters : ~WaitsFor(u, v)
        \/ \E v \in Updaters \ {u} : WaitsFor(u, v) /\ \A w \in Updaters : ~WaitsFor(v, w)

\* register_workflow holds the workflow lock and waits for the guardrail lock
\* that a monitor_action of the other thread holds
C40_Witness ==
    /\ applying["u1"].pc = "call"
    /\ applying["u1"].op = "register_workflow"
    /\ workflow_lock = "u1"
    /\ WaitsFor("u1", "u2")
    /\ applying["u2"].pc = "call"
    /\ applying["u2"].op = "monitor_action"
    /\ guardrail_lock["g1"] = "u2"


=============================================================================
